---------------------------- MODULE Spec2Model ----------------------------
(***************************************************************************)
(* A model of Crossline-cpp (src/crossline.cpp, src/crossline.h): the     *)
(* history store and its search (HistoryClass, Crossline::HistoryDump),   *)
(* the completion common prefix (CompleterClass::FindCommon) and the read *)
(* loop (Crossline::ReadlineEdit) with its nested sub-reads.              *)
(*                                                                         *)
(* A std::string is a sequence of one-character strings; positions in the *)
(* source are 0-based and are kept 0-based here (the helpers add 1).      *)
(***************************************************************************)
EXTENDS Integers, Sequences, FiniteSets, TLC

VARIABLES
    history,                  \* HistoryClass::items, oldest first (texts)
    history_noSearchRepeats,  \* CrosslinePrivate::history_noSearchRepeats
    history_search_no,        \* CrosslinePrivate::history_search_no
    dumpRes,                  \* what the last HistoryDump call returned
    items,                    \* CompleterClass::items: <<word, needQuotes>> records
    common,                   \* what the last FindCommon call returned
    start,                    \* CompleterClass::start
    end,                      \* CompleterClass::end
    pc,                       \* where the caller is: "idle", "read", "crashed"
    stack,                    \* the active ReadlineEdit calls, innermost last
    clip_buf,                 \* CrosslinePrivate::clip_buf
    termBuf,                  \* TerminalClass::buffer[0..curBuf], pushed-back characters
    errno,                    \* errno as the caller sees it
    allowEscCombo,            \* CrosslinePrivate::allowEscCombo
    result,                   \* what the last ReadLine call returned
    reads,                    \* number of ReadLine calls made
    term,                     \* a TerminalClass object with the bytes its callers put and got
    keyRes,                   \* what the last crossline_getkey call of ReadlineEdit read and returned
    drawRes,                  \* what the last Refresh call was given, left and sent to the terminal
    word_delimiter,           \* CrosslinePrivate::word_delimiter, as the set of its characters
    env,                      \* the process: isatty(STDIN_FILENO), getenv(TERM) and the bytes stdin still holds
    loop,                     \* ReadlineEdit statement by statement under SIGWINCH (SpecResize)
    screen,                   \* the terminal's display and the line drawn on it (SpecScreen)
    files                     \* the word list of the registered completer

histVars == <<history, history_noSearchRepeats, history_search_no, dumpRes>>
compVars == <<items, common>>
editVars == <<start, end, pc, stack, clip_buf, termBuf, errno, allowEscCombo,
              result, reads, term, keyRes, drawRes, word_delimiter, env, loop, screen, files>>
vars == <<history, history_noSearchRepeats, history_search_no, dumpRes,
          items, common, start, end, pc, stack, clip_buf, termBuf, errno,
          allowEscCombo, result, reads, term, keyRes, drawRes, word_delimiter, env, loop, screen, files>>

(***************************************************************************)
(* TerminalClass: the push-back buffer in front of the raw terminal input  *)
(***************************************************************************)
\* TerminalClass::BufLen
BufLen == 32

NoByte == 0      \* a slot of buffer that was never written
RawByte == -1    \* a byte RawGetChar read from the terminal
Garbage == -2    \* what a read past buffer finds when the byte put there is gone

\* TerminalClass::TerminalClass: curBuf = -1.  obj is the object, past the
\* int that follows buffer in memory; put, live, got and raws record the
\* calls: the number of PutChar calls, the bytes put and not yet due back
\* (oldest first), what the last GetChar returned, the number of raw reads.
NewTerminal ==
    [curBuf |-> -1, buffer |-> [i \in 0..(BufLen - 1) |-> NoByte], past |-> NoByte,
     put |-> 0, gets |-> 0, live |-> <<>>, got |-> NoByte, raws |-> 0]

\* TerminalClass::PutChar(c); stored is what buffer[BufLen], an int outside
\* the array, keeps of a byte written to it
PutChar(t, c, stored) ==
    IF t.curBuf < BufLen
    THEN IF t.curBuf + 1 < BufLen
         THEN [t EXCEPT !.curBuf = t.curBuf + 1, !.buffer[t.curBuf + 1] = c]
         ELSE [t EXCEPT !.curBuf = t.curBuf + 1, !.past = stored]
    ELSE t

\* TerminalClass::GetChar: <<the byte returned, the object after the call>>
GetChar(t) ==
    IF t.curBuf >= 0
    THEN <<IF t.curBuf < BufLen THEN t.buffer[t.curBuf] ELSE t.past,
           [t EXCEPT !.curBuf = t.curBuf - 1]>>
    ELSE <<RawByte, t>>

(***************************************************************************)
(* std::string helpers                                                     *)
(***************************************************************************)
Min(a, b) == IF a < b THEN a ELSE b
Max(a, b) == IF a > b THEN a ELSE b

npos == -1

\* s.substr(p, n) for 0 <= p <= s.length()
Substr(s, p, n) == SubSeq(s, p + 1, Min(p + n, Len(s)))

\* s.substr(p) for 0 <= p <= s.length()
SubstrFrom(s, p) == SubSeq(s, p + 1, Len(s))

\* s.find(w): the lowest 0-based offset at which w occurs in s, or npos
Find(s, w) ==
    LET hits == {i \in 0..(Len(s) - Len(w)) : SubSeq(s, i + 1, i + Len(w)) = w}
    IN IF hits = {} THEN npos
       ELSE CHOOSE i \in hits : \A j \in hits : i <= j

\* p is a prefix of s
IsPrefix(p, s) == Len(p) <= Len(s) /\ SubSeq(s, 1, Len(p)) = p

\* n copies of the text t, as a sequence of texts
Repeat(t, n) == [i \in 1..n |-> t]

(***************************************************************************)
(* History store                                                           *)
(***************************************************************************)
\* BaseSearchable::Add, reached from HistoryClass::Add(const std::string&)
HistoryClass_Add(hist, st) == Append(hist, st)

\* HistoryClass::HistoryLoad: one Add per line of the file, in file order
\* (the lines are split in halves so that the evaluation nests only
\* logarithmically deep)
RECURSIVE HistoryLoad(_, _)
HistoryLoad(hist, lines) ==
    IF Len(lines) = 0 THEN hist
    ELSE IF Len(lines) = 1 THEN HistoryClass_Add(hist, lines[1])
    ELSE LET mid  == Len(lines) \div 2
             left == HistoryLoad(hist, SubSeq(lines, 1, mid))
         IN IF Len(left) >= 0   \* (evaluates left before the second half)
            THEN HistoryLoad(left, SubSeq(lines, mid + 1, Len(lines)))
            ELSE left

\* MakeIndexKeys: 1..9, a..z, A..Z
MakeIndexKeys ==
    <<"1","2","3","4","5","6","7","8","9",
      "a","b","c","d","e","f","g","h","i","j","k","l","m",
      "n","o","p","q","r","s","t","u","v","w","x","y","z",
      "A","B","C","D","E","F","G","H","I","J","K","L","M",
      "N","O","P","Q","R","S","T","U","V","W","X","Y","Z">>

\* keys.size() in HistoryDump and ShowCompletions
maxKeys == Len(MakeIndexKeys)

\* DumpScanStep with the repeat check left out
DumpScanStep_KeepRepeats(hist, patterns, forward, noRepeats, i, st) ==
    LET noHist == Len(hist)
        ind    == IF forward THEN i ELSE noHist - 1 - i
        hisSt  == hist[ind + 1]
    IN IF st.brk THEN st
       ELSE IF Len(hisSt) = 0 THEN st
       ELSE IF Len(patterns) > 0 /\ Find(hisSt, patterns) = npos THEN st
       ELSE [matched    |-> (hisSt :> ind) @@ st.matched,
             patMatches |-> Append(st.patMatches, hisSt),
             count      |-> st.count + 1,
             brk        |-> st.count + 1 > maxKeys]

\* One iteration of the scan loop of HistoryDump (lines 1010-1032): i is the
\* loop counter, st the loop's state: matched (text -> history index, 0-based),
\* patMatches (kept texts in scan order), count, and brk once the loop has
\* left through its break.
DumpScanStep(hist, patterns, forward, noRepeats, i, st) ==
    LET noHist == Len(hist)
        ind    == IF forward THEN i ELSE noHist - 1 - i
        hisSt  == hist[ind + 1]
    IN IF st.brk THEN st
       ELSE IF Len(hisSt) = 0 THEN st
       ELSE IF Len(patterns) > 0 /\ Find(hisSt, patterns) = npos THEN st
       ELSE IF noRepeats /\ hisSt \in DOMAIN st.matched THEN st
       ELSE [matched    |-> (hisSt :> ind) @@ st.matched,
             patMatches |-> Append(st.patMatches, hisSt),
             count      |-> st.count + 1,
             brk        |-> st.count + 1 > maxKeys]

\* One iteration of the print loop of HistoryDump (lines 1040-1058).  keys[i]
\* with i >= keys.size() reads past the vector: the value read is g, any byte.
DumpShowStep(st, print_id, g, i, out) ==
    LET hisSt == st.patMatches[i + 1]
        inTab == i < maxKeys
        k     == IF inTab THEN MakeIndexKeys[i + 1] ELSE g
    IN [shown   |-> Append(out.shown, hisSt),
        keys    |-> IF print_id THEN Append(out.keys, k) ELSE out.keys,
        matches |-> IF print_id
                    THEN (<<k>> :> st.matched[hisSt]) @@ out.matches
                    ELSE out.matches,
        oob     |-> out.oob \/ (print_id /\ ~inTab)]

EmptyMap == [x \in {} |-> 0]

\* for (i = lo; i < hi; ++i) of the scan loop, split in halves
RECURSIVE DumpScan(_, _, _, _, _, _, _)
DumpScan(hist, patterns, forward, noRepeats, lo, hi, st) ==
    IF hi <= lo THEN st
    ELSE IF hi = lo + 1
         THEN DumpScanStep(hist, patterns, forward, noRepeats, lo, st)
    ELSE LET mid  == (lo + hi) \div 2
             left == DumpScan(hist, patterns, forward, noRepeats, lo, mid, st)
         IN IF left.count >= 0   \* (evaluates left before the second half)
            THEN DumpScan(hist, patterns, forward, noRepeats, mid, hi, left)
            ELSE left

\* for (i = lo; i < hi; ++i) of the print loop, split in halves
RECURSIVE DumpShow(_, _, _, _, _, _)
DumpShow(st, print_id, g, lo, hi, out) ==
    IF hi <= lo THEN out
    ELSE IF hi = lo + 1 THEN DumpShowStep(st, print_id, g, lo, out)
    ELSE LET mid  == (lo + hi) \div 2
             left == DumpShow(st, print_id, g, lo, mid, out)
         IN IF Len(left.shown) >= 0   \* (evaluates left before the second half)
            THEN DumpShow(st, print_id, g, mid, hi, left)
            ELSE left

\* the print loop of HistoryDump over the first noShow kept texts, and what
\* the call hands back: its return value noShow, the lines shown, the keys
\* printed, the matches map, and whether the key table was read out of bounds
DumpPrint(st, print_id, g, noShow) ==
    [noShow |-> noShow] @@
    DumpShow(st, print_id, g, 0, noShow,
             [shown |-> <<>>, keys |-> <<>>, matches |-> EmptyMap, oob |-> FALSE])

\* HistoryDump after its scan loop, showing every match found, whatever maxNo
DumpFrom_NoLimit(st, print_id, maxNo, g) == DumpPrint(st, print_id, g, st.count)

\* HistoryDump after its scan loop (lines 1034-1060)
DumpFrom(st, print_id, maxNo, g) ==
    DumpPrint(st, print_id, g,
              IF maxNo > 0 /\ st.count > maxNo THEN maxNo ELSE st.count)

\* Crossline::HistoryDump
HistoryDump(hist, print_id, patterns, maxNo, forward, noRepeats, g) ==
    DumpFrom(DumpScan(hist, patterns, forward, noRepeats, 0, Len(hist),
                      [matched |-> EmptyMap, patMatches |-> <<>>,
                       count |-> 0, brk |-> FALSE]),
             print_id, maxNo, g)

(***************************************************************************)
(* Completion common prefix                                                *)
(***************************************************************************)
Quote == "\""

\* The while loop of FindCommon (lines 2490-2493): shrink word until it occurs
\* in common; returns the remaining len.
RECURSIVE ShrinkWord(_, _, _)
ShrinkWord(cmn, word, len) ==
    IF len > 0 /\ Find(cmn, word) = npos
    THEN ShrinkWord(cmn, SubSeq(word, 1, Len(word) - 1), len - 1)
    ELSE len

\* The for loop of FindCommon (lines 2484-2499), i 0-based
RECURSIVE CommonLoop(_, _, _, _)
CommonLoop(its, i, cmn, len) ==
    IF ~(i < Len(its) /\ len > 0) THEN cmn
    ELSE LET word == Substr(its[i + 1].word, 0, len)
             len1 == IF Len(word) < len THEN Len(word) ELSE len
             len2 == ShrinkWord(cmn, word, len1)
             cmn2 == IF len2 > 0 THEN Substr(cmn, 0, len2) ELSE <<>>
         IN CommonLoop(its, i + 1, cmn2, len2)

\* CompleterClass::FindCommon
FindCommon(its) ==
    IF Len(its) = 0 THEN <<>>
    ELSE LET item == its[1]
             cmn0 == item.word
             len  == Len(cmn0)
             cmn  == IF Len(its) = 1 /\ item.needQuotes
                     THEN <<Quote>> \o cmn0 \o <<Quote>> ELSE cmn0
         IN CommonLoop(its, 1, cmn, len)

\* CompleterClass::Add(word, help, needQuotes, ...)
CompleterClass_Add(its, word, needQuotes) ==
    Append(its, [word |-> word, needQuotes |-> needQuotes])

(***************************************************************************)
(* Bounds and inputs of the history and completion specifications          *)
(***************************************************************************)
MaxHist == 3          \* history entries added one at a time
MaxFileLines == 63    \* lines of a history file loaded at start
MaxCand == 3          \* candidates given to the completer

ta == <<"a">>
tb == <<"b">>
tc == <<"c">>
tab == <<"a", "b">>
taa == <<"a", "a">>
HistTexts == {<<>>, ta, tb, tc, tab}
Patterns == {<<>>, tb}
MaxNoValues == {-1, 0, 2, 61, 63}
\* history files: the four-line file a, b, a, c and long files of equal lines
HistFiles == {<<ta, tb, ta, tc>>}
             \cup {Repeat(ta, n) : n \in (MaxFileLines - 2)..MaxFileLines}
\* what a read past the end of the key table may yield
GarbageChars == {"1", "Z", "~"}

wselect == <<"s","e","l","e","c","t">>
wset == <<"s","e","t">>
wseven == <<"s","e","v","e","n">>
wonly == <<"o","n","l","y">>
wab == <<"a","b">>
wb == <<"b">>
Words == {wselect, wset, wseven, wonly, wab, wb, <<>>}

NoCall == [op |-> "none"]

(***************************************************************************)
(* SpecHist: the history store driven through its API                      *)
(***************************************************************************)
\* a process whose stdin is a terminal that can edit
OnTerminal == [isatty |-> TRUE, TERM |-> "xterm", stdin |-> <<>>]

\* the character 0x60, which a TLA+ string cannot hold
Backtick == "0x60"

\* CROSS_DFT_DELIMITER (line 85): every printable character that is neither a
\* digit nor a letter
CROSS_DFT_DELIMITER ==
    {" ", "!", "\"", "#", "$", "%", "&", "'", "(", ")", "*", "+", ",", "-", ".",
     "/", ":", ";", "<", "=", ">", "?", "@", "[", "\\", "]", "^", "_", Backtick, "{",
     "|", "}", "~"}

InitHist ==
    /\ history = <<>>
    /\ history_noSearchRepeats = FALSE
    /\ history_search_no = 20
    /\ dumpRes = NoCall
    /\ items = <<>>
    /\ common = NoCall
    /\ start = 0
    /\ end = 0
    /\ pc = "idle"
    /\ stack = <<>>
    /\ clip_buf = <<>>
    /\ termBuf = <<>>
    /\ errno = "0"
    /\ allowEscCombo = TRUE
    /\ result = NoCall
    /\ reads = 0
    /\ screen = NoCall
    /\ loop = NoCall
    /\ env = OnTerminal
    /\ word_delimiter = CROSS_DFT_DELIMITER
    /\ drawRes = NoCall
    /\ keyRes = NoCall
    /\ term = NewTerminal
    /\ files = <<>>

\* HistoryClass::Add(st)
HistAdd ==
    \E st \in HistTexts :
        /\ Len(history) < MaxHist
        /\ history' = HistoryClass_Add(history, st)
        /\ dumpRes' = [op |-> "Add", st |-> st, before |-> history]
        /\ UNCHANGED <<history_noSearchRepeats, history_search_no, compVars, editVars>>

\* HistoryClass::HistoryLoad(file) on start-up
HistLoad ==
    \E lines \in HistFiles :
        /\ history = <<>>
        /\ dumpRes = NoCall
        /\ history' = HistoryLoad(history, lines)
        /\ dumpRes' = [op |-> "Load"]
        /\ UNCHANGED <<history_noSearchRepeats, history_search_no, compVars, editVars>>

\* Crossline::HistorySetup(noSearchRepeats)
HistSetup ==
    \E b \in BOOLEAN :
        /\ history_noSearchRepeats' = b
        /\ dumpRes' = [op |-> "Setup"]
        /\ UNCHANGED <<history, history_search_no, compVars, editVars>>

\* Crossline::HistoryDump(true, patterns, matches, maxNo, forward)
HistDump ==
    \E patterns \in Patterns, maxNo \in MaxNoValues, forward \in BOOLEAN :
      \E g \in IF HistoryDump(history, TRUE, patterns, maxNo, forward,
                              history_noSearchRepeats, "1").oob
               THEN GarbageChars ELSE {"1"} :
        /\ dumpRes' = [op |-> "HistoryDump", patterns |-> patterns,
                       maxNo |-> maxNo, forward |-> forward,
                       res |-> HistoryDump(history, TRUE, patterns, maxNo, forward,
                                           history_noSearchRepeats, g)]
        /\ UNCHANGED <<history, history_noSearchRepeats, history_search_no, compVars, editVars>>

NextHist == HistAdd \/ HistLoad \/ HistSetup \/ HistDump

SpecHist == InitHist /\ [][NextHist]_vars

(***************************************************************************)
(* SpecCommon: the completer filled by a provider, then FindCommon         *)
(***************************************************************************)
\* CompleterClass::Add called by the provider's FindItems
CompAdd ==
    \E w \in Words, q \in BOOLEAN :
        /\ Len(items) < MaxCand
        /\ items' = CompleterClass_Add(items, w, q)
        /\ common' = NoCall
        /\ UNCHANGED <<histVars, editVars>>

\* CompleterClass::Clear
CompClear ==
    /\ items # <<>>
    /\ items' = <<>>
    /\ common' = NoCall
    /\ UNCHANGED <<histVars, editVars>>

\* CompleterClass::FindCommon
CompFindCommon ==
    /\ common' = [op |-> "FindCommon", res |-> FindCommon(items)]
    /\ UNCHANGED <<items, histVars, editVars>>

NextCommon == CompAdd \/ CompClear \/ CompFindCommon

SpecCommon == InitHist /\ [][NextCommon]_vars

(***************************************************************************)
(* The read loop: Crossline::ReadLine and Crossline::ReadlineEdit          *)
(*                                                                         *)
(* A call of ReadlineEdit is a frame: its locals and its buf argument.     *)
(* The frames of the calls in progress are the stack, innermost last.  A   *)
(* handler is an operator from the machine (the frames and the objects     *)
(* the handlers touch) to the machine; an action takes one key, runs its   *)
(* handler and everything the code does until it waits for the next key.   *)
(* An uncaught std::out_of_range leaves the frame "thrown" and the program *)
(* "crashed".  The session runs with paging switched off                   *)
(* (Crossline::PagingSet(false)) and with a completer registered.          *)
(***************************************************************************)

\* s.erase(p, n) for 0 <= p <= s.length(); a negative int n arrives as a
\* huge size_t and erases to the end
Erase(s, p, n) ==
    LET cnt == IF n < 0 THEN Len(s) - p ELSE Min(n, Len(s) - p)
    IN SubSeq(s, 1, p) \o SubSeq(s, p + cnt + 1, Len(s))

\* s.insert(p, t) for 0 <= p <= s.length()
Insert(s, p, t) == SubSeq(s, 1, p) \o t \o SubSeq(s, p + 1, Len(s))

\* s.rfind(w, p): the highest offset <= p at which w occurs in s, or npos
RFind(s, w, p) ==
    LET hits == {i \in 0..Min(p, Len(s) - Len(w)) : SubSeq(s, i + 1, i + Len(w)) = w}
    IN IF hits = {} THEN npos ELSE CHOOSE i \in hits : \A j \in hits : i >= j

Space == " "
NUL == "\\0"

\* s[i]: s[s.length()] is the terminator; beyond it the read is out of
\* bounds and yields whatever byte mem holds there
CharAt(s, i, mem) ==
    IF i < Len(s) THEN s[i + 1]
    ELSE IF i = Len(s) THEN NUL
    ELSE mem[i - Len(s)]

\* Crossline::TextCopy(dest, src, cut_beg, cut_end): the new dest, or thrown
TextCopy(src, cut_beg, cut_end) ==
    LET len == cut_end - cut_beg
    IN IF len > 0
       THEN IF cut_beg = 0 /\ len = Len(src) THEN [thrown |-> FALSE, dest |-> src]
            ELSE IF cut_beg > Len(src) THEN [thrown |-> TRUE, dest |-> <<>>]
            ELSE [thrown |-> FALSE, dest |-> Substr(src, cut_beg, len)]
       ELSE [thrown |-> FALSE, dest |-> <<>>]

\* Crossline::Refresh, its effect on buf, pos and num of frame f
Refresh(f, new_pos, new_num, updateType, drawPosIn) ==
    IF f.thrown THEN f
    ELSE IF updateType = "MOVE_CURSOR"
    THEN [f EXCEPT !.pos = new_pos, !.num = new_num]
    ELSE LET b == IF new_num > 0
                  THEN IF new_num < Len(f.buf) THEN Substr(f.buf, 0, new_num) ELSE f.buf
                  ELSE <<>>
             drawPos == IF updateType = "DRAW_ALL" THEN 0 ELSE drawPosIn
         IN IF updateType = "DRAW_FROM_POS" /\ drawPos > Len(b)
            THEN [f EXCEPT !.buf = b, !.thrown = TRUE]
            ELSE [f EXCEPT !.buf = b, !.pos = new_pos, !.num = new_num]

\* Crossline::RefreshFull
RefreshFull(f, new_pos, new_num) ==
    Refresh([f EXCEPT !.pos = 0, !.num = 0], new_pos, new_num, "DRAW_ALL", 0)

ScreenCols == 160

\* prompt.length() of the read: "Crossline> ", "Input match id: ",
\* "History Search: ", "Input history id: "
PromptLen(kind) ==
    IF kind = "top" THEN 11
    ELSE IF kind = "hid" THEN 18
    ELSE 16

\* Crossline::UpdownMove for a prompt of len characters on a terminal cols
\* wide: moved |-> its return value, f |-> the frame after
UpdownMoveAt(f, len, cols, off, bForce) ==
    IF ~bForce /\ f.pos = f.num THEN [moved |-> FALSE, f |-> f]
    ELSE IF off < 0
    THEN IF (f.pos + len) \div cols = 0 THEN [moved |-> FALSE, f |-> f]
         ELSE [moved |-> TRUE, f |-> [f EXCEPT !.pos = Max(f.pos - cols, 0)]]
    ELSE IF (f.pos + len) \div cols = (f.num + len) \div cols
         THEN [moved |-> FALSE, f |-> f]
         ELSE [moved |-> TRUE,
               f |-> [f EXCEPT !.pos = IF f.pos + cols > f.num THEN f.num - 1
                                        ELSE f.pos + cols]]

\* Crossline::UpdownMove: ScreenGet gives the width of the window
UpdownMove(f, off, bForce) == UpdownMoveAt(f, PromptLen(f.kind), ScreenCols, off, bForce)

\* Crossline::CopyFromHistory; GetHistoryItem outside the store is an
\* invalid access, kept as thrown
CopyFromHistory(f, hist, id) ==
    IF id < 0 \/ id >= Len(hist) THEN [f EXCEPT !.thrown = TRUE]
    ELSE Refresh([f EXCEPT !.buf = hist[id + 1]],
                 Len(hist[id + 1]), Len(hist[id + 1]), "DRAW_ALL", 0)

\* the machine: the frames and the objects the handlers touch
Machine ==
    [pc |-> pc, stack |-> stack, history |-> history, clip_buf |-> clip_buf,
     termBuf |-> termBuf, errno |-> errno, items |-> items, start |-> start,
     end |-> end, result |-> result]

Range(seq) == {seq[i] : i \in 1..Len(seq)}

Top(m) == m.stack[Len(m.stack)]
SetTop(m, f) == [m EXCEPT !.stack[Len(m.stack)] = f]
Throw(m) == SetTop(m, [Top(m) EXCEPT !.thrown = TRUE])
Push(m, f) == [m EXCEPT !.stack = Append(m.stack, f)]

\* what a handler keeps across the sub-read it starts; old remembers the
\* buffer the handler started with
NoCtx == [from |-> "none", matches |-> EmptyMap, oldLen |-> 0, old |-> <<>>]

\* a read that starts its browse at the oldest entry
HistoryStart_Oldest(hist) == 0

\* history_id = history->Size() (line 1664): the browse starts past the newest
HistoryStart(hist) == Len(hist)

\* ReadlineEdit up to its first wait for a key (lines 1647-1681).  hist0 and
\* cleared remember the store the call started with and whether the call
\* cleared it; cause remembers which key ended the call.
NewFrame(kind, bufIn, has_input, edit_only, choices, hist, ctx) ==
    LET b == IF has_input THEN bufIn ELSE <<>>
    IN RefreshFull([kind |-> kind, buf |-> b, pos |-> Len(b), num |-> Len(b),
                    read_end |-> 0, input |-> b, copy_buf |-> 0,
                    canHis |-> ~edit_only, hisSearch |-> 1,
                    history_id |-> HistoryStart(hist), has_his |-> Len(hist) > 0,
                    edit_only |-> edit_only, choices |-> choices,
                    is_choice |-> FALSE, thrown |-> FALSE, cause |-> "none",
                    ctx |-> ctx, hist0 |-> hist, cleared |-> FALSE],
                   Len(b), Len(b))

\* KEY_LEFT, Ctrl-B
KEY_LEFT(m) ==
    LET f == Top(m)
    IN IF f.pos > 0 THEN SetTop(m, Refresh(f, f.pos - 1, f.num, "MOVE_CURSOR", 0)) ELSE m

\* KEY_RIGHT, Ctrl-F
KEY_RIGHT(m) ==
    LET f == Top(m)
    IN IF f.pos < f.num THEN SetTop(m, Refresh(f, f.pos + 1, f.num, "MOVE_CURSOR", 0)) ELSE m

\* KEY_HOME, Ctrl-A
KEY_HOME(m) == SetTop(m, Refresh(Top(m), 0, Top(m).num, "MOVE_CURSOR", 0))

\* KEY_END, Ctrl-E
KEY_END(m) == SetTop(m, Refresh(Top(m), Top(m).num, Top(m).num, "MOVE_CURSOR", 0))

\* KEY_BACKSPACE
KEY_BACKSPACE(m) ==
    LET f == Top(m)
    IN IF f.pos > 0
       THEN IF f.pos - 1 > Len(f.buf) THEN Throw(m)
            ELSE SetTop(m, Refresh([f EXCEPT !.buf = Erase(f.buf, f.pos - 1, 1)],
                                   f.pos - 1, f.num - 1, "DRAW_ALL", 0))
       ELSE m

\* KEY_DEL, Ctrl-D
KEY_DEL(m, ch) ==
    LET f == Top(m)
    IN IF f.pos < f.num
       THEN IF f.pos > Len(f.buf) THEN Throw(m)
            ELSE SetTop(m, Refresh([f EXCEPT !.buf = Erase(f.buf, f.pos, 1)],
                                   f.pos, f.num - 1, "DRAW_ALL", 0))
       ELSE IF f.num = 0 /\ ch = "CTRL_D"
       THEN SetTop(m, [f EXCEPT !.read_end = -1, !.cause = "ctrld"])
       ELSE m

\* Ctrl-K, KEY_CTRL_END, KEY_ALT_END
CTRL_K(m) ==
    LET f == Top(m)
        cut == TextCopy(f.buf, f.pos, f.num)
    IN IF cut.thrown THEN Throw(m)
       ELSE SetTop([m EXCEPT !.clip_buf = cut.dest],
                   Refresh(f, f.pos, f.pos, "DRAW_ALL", 0))

\* Ctrl-U, KEY_CTRL_HOME, KEY_ALT_HOME
CTRL_U(m) ==
    LET f == Top(m)
        cut == TextCopy(f.buf, 0, f.pos)
    IN SetTop([m EXCEPT !.clip_buf = cut.dest],
              Refresh([f EXCEPT !.buf = Erase(f.buf, 0, f.num - f.pos)],
                      0, f.num - f.pos, "DRAW_ALL", 0))

\* Ctrl-X
CTRL_X(m) ==
    LET f == Top(m)
        cut == TextCopy(f.buf, 0, f.num)
    IN SetTop([m EXCEPT !.clip_buf = cut.dest], Refresh(f, 0, 0, "DRAW_ALL", 0))

\* Alt-R
ALT_R(m) == SetTop(m, Refresh(Top(m), 0, 0, "DRAW_ALL", 0))

\* for (new_pos = pos; (new_pos > 0) && (' ' == buf[new_pos]); --new_pos)
RECURSIVE SpacesLeft(_, _, _)
SpacesLeft(b, new_pos, mem) ==
    IF new_pos > 0 /\ CharAt(b, new_pos, mem) = Space
    THEN SpacesLeft(b, new_pos - 1, mem) ELSE new_pos

\* for (new_pos = pos; (new_pos < num) && (' ' == buf[new_pos]); ++new_pos)
RECURSIVE SpacesRight(_, _, _, _)
SpacesRight(b, new_pos, num, mem) ==
    IF new_pos < num /\ CharAt(b, new_pos, mem) = Space
    THEN SpacesRight(b, new_pos + 1, num, mem) ELSE new_pos

\* Alt-\ from its second loop on (1817-1819), f1 the frame after the first
\* Refresh, n2 the second loop's new_pos
TrimRight(m, f1, n2) ==
    IF f1.pos > Len(f1.buf) THEN Throw(SetTop(m, f1))
    ELSE SetTop(m, Refresh([f1 EXCEPT !.buf = Erase(f1.buf, f1.pos, f1.num - n2)],
                           f1.pos, f1.num - (n2 - f1.pos), "DRAW_ALL", 0))

TrimRightOf(m, f1, mem) == TrimRight(m, f1, SpacesRight(f1.buf, f1.pos, f1.num, mem))

\* Alt-\ up to its first Refresh (1814-1816), n1 the first loop's new_pos
TrimLeft(m, f, n1, mem) ==
    IF f.pos > Len(f.buf) THEN Throw(m)
    ELSE TrimRightOf(m, Refresh([f EXCEPT !.buf = Erase(f.buf, f.pos, f.num - f.pos)],
                                n1, f.num - (f.pos - n1), "DRAW_ALL", 0), mem)

\* Alt-\ ; mem is what the bytes past the terminator of buf hold
ALT_BACKSLASH(m, mem) == TrimLeft(m, Top(m), SpacesLeft(Top(m).buf, Top(m).pos, mem), mem)

\* isdelim (256-260): strchr finds ch in word_delimiter, whose terminator it
\* also matches
isdelim(delims, ch) == ch \in delims \/ ch = NUL

\* for (...; (new_pos > 0) && isdelim(buf[new_pos]); --new_pos), and with
\* !isdelim when inWord
RECURSIVE WordScanLeft(_, _, _, _, _)
WordScanLeft(b, new_pos, delims, inWord, mem) ==
    IF new_pos > 0 /\ (isdelim(delims, CharAt(b, new_pos, mem)) # inWord)
    THEN WordScanLeft(b, new_pos - 1, delims, inWord, mem) ELSE new_pos

\* for (...; (new_pos < num) && isdelim(buf[new_pos]); ++new_pos), and with
\* !isdelim when inWord
RECURSIVE WordScanRight(_, _, _, _, _, _)
WordScanRight(b, new_pos, num, delims, inWord, mem) ==
    IF new_pos < num /\ (isdelim(delims, CharAt(b, new_pos, mem)) # inWord)
    THEN WordScanRight(b, new_pos + 1, num, delims, inWord, mem) ELSE new_pos

\* the new_pos the two loops of Alt-B leave (1729-1730)
WordLeft(b, pos, delims, mem) ==
    WordScanLeft(b, WordScanLeft(b, pos - 1, delims, FALSE, mem), delims, TRUE, mem)

\* the new_pos the two loops of Alt-F leave (1738-1739)
WordRight(b, pos, num, delims, mem) ==
    WordScanRight(b, WordScanRight(b, pos, num, delims, FALSE, mem), num, delims,
                  TRUE, mem)

\* Alt-B that moves to where its loops stopped
ALT_B_NoStep(m, delims, mem) ==
    LET f == Top(m)
    IN SetTop(m, Refresh(f, Max(WordLeft(f.buf, f.pos, delims, mem), 0), f.num,
                         "MOVE_CURSOR", 0))

\* Alt-B, KEY_CTRL_LEFT, KEY_ALT_LEFT (1727-1734)
ALT_B(m, delims, mem) ==
    LET f == Top(m)
        new_pos == WordLeft(f.buf, f.pos, delims, mem)
    IN SetTop(m, Refresh(f, IF new_pos # 0 THEN new_pos + 1 ELSE new_pos, f.num,
                         "MOVE_CURSOR", 0))

\* Alt-F, KEY_CTRL_RIGHT, KEY_ALT_RIGHT (1736-1743)
ALT_F(m, delims, mem) ==
    LET f == Top(m)
    IN SetTop(m, Refresh(f, WordRight(f.buf, f.pos, f.num, delims, mem), f.num,
                         "MOVE_CURSOR", 0))

\* Ctrl-Y, Ctrl-V, KEY_INSERT
CTRL_Y(m) ==
    LET f == Top(m)
        clipLen == Len(m.clip_buf)
    IN IF f.pos > Len(f.buf) THEN Throw(m)
       ELSE SetTop(m, Refresh([f EXCEPT !.buf = Insert(f.buf, f.pos, m.clip_buf)],
                              f.pos + clipLen, f.num + clipLen, "DRAW_ALL", 0))

\* KEY_ENTER, KEY_ENTER2
KEY_ENTER(m) ==
    LET f == Refresh(Top(m), Top(m).num, Top(m).num, "MOVE_CURSOR", 0)
    IN SetTop(m, [f EXCEPT !.read_end = 1, !.cause = "enter"])

\* the Ctrl-C, Ctrl-G handler with the abort replaced by an accept
CTRL_C_Accepts(m) ==
    LET f == Refresh(Top(m), Top(m).num, Top(m).num, "MOVE_CURSOR", 0)
    IN SetTop(m, [f EXCEPT !.read_end = 1, !.cause = "ctrlc"])

\* Ctrl-C, Ctrl-G
CTRL_C(m) ==
    LET f == Refresh(Top(m), Top(m).num, Top(m).num, "MOVE_CURSOR", 0)
    IN SetTop([m EXCEPT !.errno = "EAGAIN"],
              [f EXCEPT !.num = 0, !.pos = 0, !.read_end = -1, !.cause = "ctrlc"])

\* default: a printable character
KEY_CHAR(m, ch) ==
    LET f == [Top(m) EXCEPT !.canHis = ~Top(m).edit_only]
    IN IF f.pos > Len(f.buf) THEN Throw(m)
       ELSE LET f1 == Refresh([f EXCEPT !.buf = Insert(f.buf, f.pos, <<ch>>)],
                              f.pos + 1, f.num + 1,
                              IF PromptLen(f.kind) + f.pos + 1 > ScreenCols
                              THEN "DRAW_ALL" ELSE "DRAW_FROM_POS", f.pos)
            IN SetTop(m, [f1 EXCEPT !.copy_buf = 0])

\* default: the ESC byte, which crossline_getkey leaves undecoded when
\* allowEscCombo is off
KEY_ESC(m, allowEsc) ==
    LET f == [Top(m) EXCEPT !.canHis = ~Top(m).edit_only]
    IN IF ~allowEsc THEN SetTop(m, [f EXCEPT !.read_end = -1, !.cause = "esc"])
       ELSE SetTop(m, f)

\* TerminalClass::PutChar for every character of st, in order
RECURSIVE PutChars(_, _)
PutChars(buffer, st) ==
    IF Len(st) = 0 THEN buffer
    ELSE PutChars(IF Len(buffer) - 1 < BufLen THEN Append(buffer, st[1]) ELSE buffer,
                  SubSeq(st, 2, Len(st)))

\* the typed text matched against choices after every key (2202-2223)
ChoicesCheck(f) ==
    IF Len(f.choices) > 0 /\ f.num > 0
    THEN LET hit == {i \in 1..Len(f.choices) :
                        f.choices[i] = f.buf \/ IsPrefix(f.buf, f.choices[i])}
         IN IF hit = {} THEN [f EXCEPT !.read_end = 1, !.is_choice = FALSE]
            ELSE LET i == CHOOSE i \in hit : \A j \in hit : i <= j
                 IN IF f.choices[i] = f.buf
                    THEN [f EXCEPT !.read_end = 1, !.is_choice = TRUE]
                    ELSE f
    ELSE f

\* the handlers after HistorySearch with the found text left out of buf
SearchDone_KeepsText(m, id, text, from) ==
    LET f == Top(m)
    IN SetTop(m, [Refresh([f EXCEPT !.history_id = id], Len(f.buf), Len(f.buf),
                          "DRAW_ALL", 0)
                  EXCEPT !.hisSearch = IF id < 0 THEN f.hisSearch ELSE -1])

\* HistorySearch has its result <<id, text>>: the rest of the handler that
\* called it (KEY_UP 2010-2026, Ctrl-R 2122-2130)
SearchDone(m, id, text, from) ==
    LET f == Top(m)
    IN IF from = "up"
       THEN IF id < 0
            THEN SetTop(m, Refresh([f EXCEPT !.history_id = id],
                                   Len(f.buf), Len(f.buf), "DRAW_ALL", 0))
            ELSE SetTop(m, [Refresh([f EXCEPT !.history_id = id, !.buf = text],
                                    Len(text), Len(text), "DRAW_ALL", 0)
                            EXCEPT !.hisSearch = -1])
       ELSE LET b == IF id >= 0 THEN f.input ELSE f.buf
            IN SetTop(m, RefreshFull([f EXCEPT !.buf = b], Len(b), Len(b)))

\* Crossline::HistorySearch from the HistoryDump call on (1083-1109).  The
\* store of a session stays below maxKeys entries, so the byte past the key
\* table is never read.
PickFromDump(m, res, from) ==
    IF res.noShow = 0 THEN SearchDone(m, -1, <<>>, from)
    ELSE IF res.noShow > 1
    THEN Push(m, NewFrame("hid", <<"1">>, res.noShow = 1, TRUE,
                          [i \in 1..Len(res.keys) |-> <<res.keys[i]>>], m.history,
                          [from |-> from, matches |-> res.matches, oldLen |-> 0,
                           old |-> Top(m).buf]))
    ELSE SearchDone(m, res.matches[<<res.keys[1]>>],
                    m.history[res.matches[<<res.keys[1]>>] + 1], from)

DumpAndPick(m, pattern, from) ==
    PickFromDump(m, HistoryDump(m.history, TRUE, pattern, history_search_no, FALSE,
                                history_noSearchRepeats, "?"),
                 from)

\* Crossline::HistorySearch(input)
HistorySearch(m, input, from) ==
    IF Len(input) > 0 THEN DumpAndPick(m, input, from)
    ELSE Push(m, NewFrame("hpat", <<>>, Len(input) > 0, TRUE, <<>>, m.history,
                          [from |-> from, matches |-> EmptyMap, oldLen |-> 0,
                           old |-> Top(m).buf]))

\* the completion handler after its pick sub-read returned (1955-1992)
PickDone(m, ctx, ret, inBuf) ==
    LET f == Top(m)
    IN IF ~ret THEN SetTop(m, RefreshFull(f, f.pos, f.num))
       ELSE IF Len(inBuf) = 0 \/ inBuf \notin DOMAIN ctx.matches THEN m
       ELSE LET ind == ctx.matches[inBuf]
            IN IF ind < Len(m.items)
               THEN LET cmp    == m.items[ind + 1]
                        newBuf == IF cmp.needQuotes THEN <<Quote>> \o cmp.word \o <<Quote>>
                                  ELSE cmp.word
                        len3   == Len(newBuf)
                        newPos == f.pos + len3 - ctx.oldLen
                        newNum == f.num + len3 - ctx.oldLen
                    IN IF m.start > Len(f.buf) \/ f.pos > Len(f.buf) THEN Throw(m)
                       ELSE SetTop(m, RefreshFull(
                                [f EXCEPT !.buf = Substr(f.buf, 0, m.start) \o newBuf
                                                  \o SubstrFrom(f.buf, f.pos)],
                                newPos, newNum))
               ELSE SetTop(m, RefreshFull(f, f.pos, f.num))

RECURSIVE LoopEnd(_)

\* a handler has run: wait for the next key of the sub-read it started, or
\* finish the loop iteration
Settle(depth, m) == IF Len(m.stack) > depth THEN m ELSE LoopEnd(m)

\* a sub-read returned ret and sbuf to the handler that started it
SubReturn(m, sub, ret, sbuf) ==
    LET done ==
          IF sub.kind = "pick" THEN PickDone(m, sub.ctx, ret, sbuf)
          ELSE IF sub.kind = "hpat"
          THEN IF ~ret THEN SearchDone(m, -1, <<>>, sub.ctx.from)
               ELSE DumpAndPick(m, sbuf, sub.ctx.from)
          ELSE IF ~ret THEN SearchDone(m, -1, <<>>, sub.ctx.from)
          ELSE IF sbuf \notin DOMAIN sub.ctx.matches
          THEN SearchDone(m, -2, sbuf, sub.ctx.from)
          ELSE SearchDone(m, sub.ctx.matches[sbuf],
                          m.history[sub.ctx.matches[sbuf] + 1], sub.ctx.from)
    IN Settle(Len(m.stack), done)

\* a read that ended with text that is no canned response is added to the
\* history (2232)
Canned(f) == ~(Len(f.choices) = 0 /\ ~f.edit_only /\ f.num > 0)

\* "have response that is not one of the choices" (2249)
Rejects(f) == f.read_end > 0 /\ Canned(f) /\ Len(f.choices) > 0 /\ ~f.is_choice

\* the rejected text handed to PutChar with the push back left out
PushBack_None(buffer, f) == buffer

\* the rejected text handed to PutChar character by character (2252-2254)
PushBack(buffer, f) == IF Rejects(f) THEN PutChars(buffer, f.buf) ELSE buffer

\* buf as ReadlineEdit leaves it for its caller (2255)
ReturnedBuf(f) == IF Rejects(f) THEN <<>> ELSE f.buf

\* the value ReadlineEdit returns (2259, 2261)
ReturnedValue(f) == f.read_end > 0 /\ Len(ReturnedBuf(f)) > 0

\* ReadlineEdit after its loop (2228-2263), then ReadLine's return or the
\* caller's handler
Return(m) ==
    LET f       == Top(m)
        add     == /\ f.read_end > 0 /\ ~Canned(f)
                   /\ ~(Len(m.history) > 0 /\ f.buf = m.history[Len(m.history)])
        m1      == [m EXCEPT
                      !.history = IF add THEN HistoryClass_Add(m.history, f.buf)
                                  ELSE m.history,
                      !.termBuf = PushBack(m.termBuf, f),
                      !.stack = SubSeq(m.stack, 1, Len(m.stack) - 1)]
    IN IF f.kind = "top"
       THEN [m1 EXCEPT !.pc = "idle",
                       !.result = [op |-> "ReadLine", accepted |-> ReturnedValue(f),
                                   text |-> ReturnedBuf(f),
                                   cause |-> f.cause, num |-> f.num,
                                   hist0 |-> f.hist0, cleared |-> f.cleared]]
       ELSE SubReturn(m1, f, ReturnedValue(f), ReturnedBuf(f))

\* hisSearch++ (2225).  hisSearch is only ever tested for > 0, so a count
\* above 1 is kept as 1.
CountKey(f) == [f EXCEPT !.hisSearch = IF f.hisSearch < 1 THEN f.hisSearch + 1 ELSE 1]

\* while (!read_end), and the return once the loop is left
LoopAgain(m) == IF Top(m).read_end = 0 THEN m ELSE Return(m)

\* the end of a loop iteration (2201-2226)
LoopEnd(m) ==
    IF Top(m).thrown THEN [m EXCEPT !.pc = "crashed"]
    ELSE LoopAgain(SetTop(m, CountKey(ChoicesCheck(Top(m)))))


\* MyCompleter::FindItems(buf, cLine, pos) of src/example_cpp.cpp on a
\* cleared completer: the candidates and the span given to Setup
RECURSIVE AddFiles(_, _, _)
AddFiles(its, i, search) ==
    IF i > Len(files) THEN its
    ELSE AddFiles(IF IsPrefix(search, files[i])
                  THEN CompleterClass_Add(its, files[i], Find(files[i], <<Space>>) # npos)
                  ELSE its,
                  i + 1, search)

FindItems(b, pos) ==
    LET sp     == RFind(b, <<Space>>, pos)
        spPos  == IF sp = npos THEN 0 ELSE sp + 1
        search == IF pos - spPos < 0 THEN SubstrFrom(b, spPos)
                  ELSE Substr(b, spPos, pos - spPos)
    IN [items |-> AddFiles(<<>>, 1, search), start |-> spPos, end |-> pos]

\* Crossline::ShowCompletions, the matches it fills in (keys[i] -> i)
ShowCompletions(its) ==
    [k \in {<<MakeIndexKeys[i]>> : i \in 1..Min(Len(its), maxKeys)} |->
        (CHOOSE i \in 1..maxKeys : MakeIndexKeys[i] = k[1]) - 1]

\* the completion handler from "Setup the common completion" to the pick
\* sub-read (1917-1955): fi is what FindItems left in the completer, cmn its
\* FindCommon
Complete(m, ch, fi, cmn) ==
    LET f         == Top(m)
        doCommon  == Len(fi.items) >= 1 /\ ch = "KEY_TAB"
        changed   == doCommon
                     /\ Substr(f.buf, 0, fi.start) \o cmn \o SubstrFrom(f.buf, fi.end) # f.buf
        oldLen    == IF changed THEN Len(cmn)
                     ELSE IF doCommon THEN fi.end - fi.start ELSE 0
        f1        == IF changed
                     THEN Refresh([f EXCEPT !.buf = Substr(f.buf, 0, fi.start) \o cmn
                                                   \o SubstrFrom(f.buf, fi.end)],
                                  fi.start + Len(cmn),
                                  f.num + Len(cmn) - (fi.end - fi.start), "DRAW_ALL", 0)
                     ELSE f
    IN IF doCommon /\ (fi.start > Len(f.buf) \/ fi.end > Len(f.buf)) THEN Throw(m)
       ELSE IF (Len(fi.items) # 1 \/ ch # "KEY_TAB") /\ Len(fi.items) > 0
       THEN Push(SetTop(m, f1),
                 NewFrame("pick", <<>>, FALSE, TRUE,
                          [i \in 1..Min(Len(fi.items), maxKeys) |-> <<MakeIndexKeys[i]>>],
                          m.history,
                          [from |-> "tab", matches |-> ShowCompletions(fi.items),
                           oldLen |-> oldLen, old |-> f.buf]))
       ELSE SetTop(m, f1)

\* completer->Clear(); completer->FindItems(buf, *this, pos)
Completer(m, fi) == [m EXCEPT !.items = fi.items, !.start = fi.start, !.end = fi.end]

CompleteWith(m, ch, fi) == Complete(Completer(m, fi), ch, fi, FindCommon(fi.items))

\* KEY_TAB, Alt-=, Alt-? (1907-1999) up to the pick sub-read
KEY_TAB(m, ch) ==
    IF Top(m).edit_only THEN m
    ELSE CompleteWith(m, ch, FindItems(Top(m).buf, Top(m).pos))

\* a browse that never remembers the text it started from
SaveInput_Never(f) == f

\* if (!copy_buf) { TextCopy(input, buf, 0, num); copy_buf = 1; }
SaveInput(f) ==
    IF f.copy_buf = 0
    THEN [f EXCEPT !.input = TextCopy(f.buf, 0, f.num).dest, !.copy_buf = 1]
    ELSE f

\* buf = input; Refresh(..., bufLen, bufLen, DRAW_ALL)
BackToInput(f) == Refresh([f EXCEPT !.buf = f.input], Len(f.input), Len(f.input), "DRAW_ALL", 0)

\* KEY_UP, Ctrl-P
KEY_UP(m) ==
    LET f == Top(m)
    IN IF f.canHis /\ f.has_his /\ f.hisSearch > 0 /\ f.pos > 0 /\ Len(f.buf) = f.pos
       THEN HistorySearch(m, f.buf, "up")
       ELSE LET f1 == [f EXCEPT !.canHis = FALSE, !.hisSearch = -1]
                ud == UpdownMove(f1, -1, FALSE)
                f2 == SaveInput(f1)
            IN IF ud.moved THEN SetTop(m, ud.f)
               ELSE IF f1.edit_only \/ ~f1.has_his THEN SetTop(m, f1)
               ELSE IF f2.history_id > 0
               THEN SetTop(m, CopyFromHistory([f2 EXCEPT !.history_id = f2.history_id - 1],
                                              m.history, f2.history_id - 1))
               ELSE SetTop(m, BackToInput([f2 EXCEPT !.history_id = Len(m.history)]))

\* KEY_DOWN, Ctrl-N (2056-2081) for a prompt of len characters on a terminal
\* cols wide; its UpdownMove is called with off -1
KEY_DOWN_At(m, len, cols) ==
    LET f  == Top(m)
        ud == UpdownMoveAt(f, len, cols, -1, FALSE)
        f2 == SaveInput(f)
    IN IF ud.moved THEN SetTop(m, ud.f)
       ELSE IF ~f.edit_only /\ f.has_his
       THEN IF f2.history_id + 1 < Len(m.history)
            THEN SetTop(m, CopyFromHistory([f2 EXCEPT !.history_id = f2.history_id + 1],
                                           m.history, f2.history_id + 1))
            ELSE SetTop(m, BackToInput([f2 EXCEPT !.history_id = -1]))
       ELSE m

\* KEY_DOWN, Ctrl-N
KEY_DOWN(m) == KEY_DOWN_At(m, PromptLen(Top(m).kind), ScreenCols)

\* KEY_PGUP, Alt-<
KEY_PGUP(m) ==
    LET f  == Top(m)
        f2 == SaveInput(f)
    IN IF f.edit_only \/ ~f.has_his THEN m
       ELSE IF Len(m.history) > 0
       THEN SetTop(m, CopyFromHistory([f2 EXCEPT !.history_id = 0], m.history, 0))
       ELSE SetTop(m, f2)

\* KEY_PGDN, Alt->
KEY_PGDN(m) ==
    LET f  == Top(m)
        f2 == SaveInput(f)
    IN IF f.edit_only \/ ~f.has_his THEN m
       ELSE SetTop(m, BackToInput([f2 EXCEPT !.history_id = Len(m.history)]))

\* Ctrl-R, Ctrl-S, KEY_F4 (2111-2131) up to the sub-read of HistorySearch
CTRL_R(m) ==
    LET f  == Top(m)
        f1 == [f EXCEPT !.input = TextCopy(f.buf, 0, f.num).dest]
    IN IF f.edit_only \/ ~f.has_his THEN m
       ELSE HistorySearch(SetTop(m, f1), f1.buf, "search")

\* KEY_F2 (2132-2139): HistoryShow prints the store and changes nothing
KEY_F2(m) ==
    LET f == Top(m)
    IN IF f.edit_only \/ ~f.has_his \/ Len(m.history) = 0 THEN m
       ELSE SetTop(m, RefreshFull(f, f.pos, f.num))

\* a clearing that leaves the browse index where it was
KEY_F3_KeepsIndex(m, ch) ==
    LET f == Top(m)
    IN IF f.edit_only \/ ~f.has_his THEN m
       ELSE IF ch = "y"
       THEN SetTop([m EXCEPT !.history = <<>>],
                   RefreshFull([f EXCEPT !.cleared = TRUE], f.pos, f.num))
       ELSE SetTop(m, RefreshFull(f, f.pos, f.num))

\* a clearing that a sub-read may start as well
KEY_F3_Unguarded(m, ch) ==
    LET f == Top(m)
    IN IF ch = "y"
       THEN SetTop([m EXCEPT !.history = <<>>],
                   RefreshFull([f EXCEPT !.history_id = 0, !.cleared = TRUE], f.pos, f.num))
       ELSE SetTop(m, RefreshFull(f, f.pos, f.num))

\* KEY_F3; ch is the byte its Getch returns
KEY_F3(m, ch) ==
    LET f == Top(m)
    IN IF f.edit_only \/ ~f.has_his THEN m
       ELSE IF ch = "y"
       THEN SetTop([m EXCEPT !.history = <<>>],
                   RefreshFull([f EXCEPT !.history_id = 0, !.cleared = TRUE], f.pos, f.num))
       ELSE SetTop(m, RefreshFull(f, f.pos, f.num))

(***************************************************************************)
(* Spec: a session of ReadLine calls, one action per key                   *)
(***************************************************************************)
MaxLen == 2           \* length of a buffer, pushed-back characters included
MaxReads == 1         \* ReadLine calls of a session

Chars == {"a"}                    \* printable keys typed in any read
MemBytes == {Space, "x"}          \* a byte past the terminator of buf
GarbageMem == [1..MaxLen -> MemBytes]
\* a session starts with the store HistoryLoad left and with the word list
\* of its completer (file names in example_cpp.cpp)
Sessions == {[store |-> <<>>, files |-> <<taa>>],
             [store |-> <<ta, taa>>, files |-> <<taa, ta>>]}

BoundedBy(m, n) ==
    \A i \in 1..Len(m.stack) :
        m.stack[i].num <= n /\ Len(m.stack[i].buf) <= n

Bounded(m) == BoundedBy(m, MaxLen)

RECURSIVE SumNum(_)
SumNum(frames) ==
    IF Len(frames) = 0 THEN 0
    ELSE frames[1].num + SumNum(SubSeq(frames, 2, Len(frames)))

\* characters in the buffers of the active reads and pushed back
Held == SumNum(stack) + Len(termBuf)

\* the variables take the machine's values; the session's settings stay
ApplyUpTo(m, n) ==
    /\ BoundedBy(m, n)
    /\ pc' = m.pc
    /\ stack' = m.stack
    /\ history' = m.history
    /\ clip_buf' = m.clip_buf
    /\ termBuf' = m.termBuf
    /\ errno' = m.errno
    /\ items' = m.items
    /\ start' = m.start
    /\ end' = m.end
    /\ result' = m.result
    /\ UNCHANGED <<history_noSearchRepeats, history_search_no, dumpRes, common,
                   allowEscCombo, reads, term, keyRes, drawRes, word_delimiter, env, loop, screen, files>>

\* the loop waits in crossline_getkey and the terminal has no pushed-back byte
Editing == pc = "read" /\ termBuf = <<>>

\* run handler result m1 to the next wait for a key
Apply(m) == ApplyUpTo(m, MaxLen)

Key(m1) == Apply(Settle(Len(stack), m1))

Init ==
    /\ \E s \in Sessions : history = s.store /\ files = s.files
    /\ history_noSearchRepeats = FALSE
    /\ history_search_no = 20
    /\ dumpRes = NoCall
    /\ items = <<>>
    /\ common = NoCall
    /\ start = 0
    /\ end = 0
    /\ pc = "idle"
    /\ stack = <<>>
    /\ clip_buf = <<>>
    /\ termBuf = <<>>
    /\ errno = "0"
    /\ allowEscCombo = FALSE
    /\ result = NoCall
    /\ reads = 0
    /\ screen = NoCall
    /\ loop = NoCall
    /\ env = OnTerminal
    /\ word_delimiter = CROSS_DFT_DELIMITER
    /\ drawRes = NoCall
    /\ keyRes = NoCall
    /\ term = NewTerminal

\* Crossline::ReadLine(prompt, buf, useBuf) on a terminal; the caller passes
\* the buf of its previous call, as the examples do
ReadLineUpTo(n) ==
    \E useBuf \in BOOLEAN :
        /\ pc = "idle"
        /\ reads < n
        /\ reads' = reads + 1
        /\ pc' = "read"
        /\ stack' = <<NewFrame("top", IF result = NoCall THEN <<>> ELSE result.text,
                               useBuf, FALSE, <<>>, history, NoCtx)>>
        /\ UNCHANGED <<history, history_noSearchRepeats, history_search_no, dumpRes,
                       items, common, start, end, clip_buf, termBuf, errno,
                       allowEscCombo, result, term, keyRes, drawRes, word_delimiter, env, loop, screen, files>>

ReadLine == ReadLineUpTo(MaxReads)

KeyLeft == Editing /\ Key(KEY_LEFT(Machine))
KeyRight == Editing /\ Key(KEY_RIGHT(Machine))
KeyHome == Editing /\ Key(KEY_HOME(Machine))
KeyEnd == Editing /\ Key(KEY_END(Machine))
KeyBackspace == Editing /\ Key(KEY_BACKSPACE(Machine))
KeyDel == Editing /\ Key(KEY_DEL(Machine, "KEY_DEL"))
KeyCtrlD == Editing /\ Key(KEY_DEL(Machine, "CTRL_D"))
KeyCtrlK == Editing /\ Key(CTRL_K(Machine))
KeyCtrlU == Editing /\ Key(CTRL_U(Machine))
KeyCtrlX == Editing /\ Key(CTRL_X(Machine))
KeyAltR == Editing /\ Key(ALT_R(Machine))

KeyAltBackslash ==
    /\ Editing
    /\ \E mem \in IF Top(Machine).num > Len(Top(Machine).buf)
                     \/ Top(Machine).pos > Len(Top(Machine).buf)
                  THEN GarbageMem ELSE {[i \in 1..MaxLen |-> "x"]} :
           Key(ALT_BACKSLASH(Machine, mem))

KeyCtrlY ==
    /\ Editing
    /\ Held + Len(clip_buf) <= MaxLen
    /\ Key(CTRL_Y(Machine))

KeyTab == Editing /\ \E ch \in {"KEY_TAB", "ALT_EQ"} : Key(KEY_TAB(Machine, ch))
KeyUp == Editing /\ Key(KEY_UP(Machine))
KeyDown == Editing /\ Key(KEY_DOWN(Machine))
KeyPgUp == Editing /\ Key(KEY_PGUP(Machine))
KeyPgDn == Editing /\ Key(KEY_PGDN(Machine))
KeyCtrlR == Editing /\ Key(CTRL_R(Machine))

\* KEY_F3 with the byte ch its Getch reads
KeyF3 == Editing /\ \E ch \in {"y", "n"} : Key(KEY_F3(Machine, ch))

KeyEnter == Editing /\ Key(KEY_ENTER(Machine))
KeyCtrlC == Editing /\ Key(CTRL_C(Machine))
KeyEsc == Editing /\ ~allowEscCombo /\ Key(KEY_ESC(Machine, allowEscCombo))

\* a printable character: the pushed-back one if there is any (GetChar pops
\* the last byte put), else a typed one, which in a pick or id prompt may
\* also be one of the mnemonic keys on offer
KeyCharOf(typed) ==
    /\ pc = "read"
    /\ \E ch \in IF termBuf # <<>> THEN {termBuf[Len(termBuf)]}
                 ELSE typed \cup {c[1] : c \in Range(Top(Machine).choices)} :
           /\ termBuf # <<>> \/ Held < MaxLen \/ <<ch>> \in Range(Top(Machine).choices)
           /\ Key(KEY_CHAR([Machine EXCEPT !.termBuf = SubSeq(termBuf, 1, Len(termBuf) - 1)],
                           ch))

KeyChar == KeyCharOf(Chars)

Next ==
    \/ ReadLine
    \/ KeyLeft \/ KeyRight \/ KeyHome \/ KeyEnd
    \/ KeyBackspace \/ KeyDel \/ KeyCtrlD
    \/ KeyCtrlK \/ KeyCtrlU \/ KeyCtrlX \/ KeyAltR \/ KeyAltBackslash \/ KeyCtrlY
    \/ KeyTab \/ KeyUp \/ KeyDown \/ KeyPgUp \/ KeyPgDn \/ KeyCtrlR
    \/ KeyF3
    \/ KeyEnter \/ KeyCtrlC \/ KeyEsc \/ KeyChar

Spec == Init /\ [][Next]_vars

(***************************************************************************)
(* SpecBrowse: a session of several ReadLine calls in which the user types, *)
(* browses the history and ends each read                                  *)
(***************************************************************************)
MaxBrowseReads == 3   \* ReadLine calls of a browsing session

ReadLineAgain == ReadLineUpTo(MaxBrowseReads)

NextBrowse ==
    \/ ReadLineAgain
    \/ KeyUp \/ KeyDown \/ KeyPgUp \/ KeyPgDn
    \/ KeyChar \/ KeyBackspace
    \/ KeyEnter \/ KeyCtrlC \/ KeyCtrlD \/ KeyEsc

SpecBrowse == Init /\ [][NextBrowse]_vars

(***************************************************************************)
(* SpecPrompt: a ReadLine call in which the user types, cuts and pastes,    *)
(* asks for completions and history searches and answers their prompts     *)
(***************************************************************************)
NextPrompt ==
    \/ ReadLine
    \/ KeyChar \/ KeyBackspace \/ KeyLeft \/ KeyCtrlK \/ KeyCtrlY
    \/ KeyTab \/ KeyUp \/ KeyPgUp \/ KeyCtrlR
    \/ KeyEnter \/ KeyCtrlC \/ KeyEsc

SpecPrompt == Init /\ [][NextPrompt]_vars

(***************************************************************************)
(* SpecTerm: callers put bytes back into a TerminalClass object and get    *)
(* bytes from it.  The n-th byte put is the number n.                      *)
(***************************************************************************)
MaxPut == 34        \* PutChar calls
MaxEarlyGets == 2   \* GetChar calls after which no byte is put any more
MaxRaws == 2        \* GetChar calls that read the raw terminal

TermPutChar ==
    /\ term.put < MaxPut
    /\ term.gets <= MaxEarlyGets
    /\ \E stored \in {term.put + 1, Garbage} :
           term' = [PutChar(term, term.put + 1, stored)
                    EXCEPT !.put = term.put + 1,
                           !.live = Append(term.live, term.put + 1)]
    /\ UNCHANGED <<histVars, compVars, start, end, pc, stack, clip_buf, termBuf, errno,
                   allowEscCombo, result, reads, keyRes, drawRes, word_delimiter, env, loop, screen, files>>

TermGetChar ==
    /\ term.curBuf >= 0 \/ term.raws < MaxRaws
    /\ term' = [GetChar(term)[2]
                EXCEPT !.got = GetChar(term)[1],
                       !.gets = term.gets + 1,
                       !.raws = IF term.curBuf >= 0 THEN term.raws ELSE term.raws + 1,
                       !.live = IF term.live = <<>> THEN <<>>
                                ELSE SubSeq(term.live, 1, Len(term.live) - 1)]
    /\ UNCHANGED <<histVars, compVars, start, end, pc, stack, clip_buf, termBuf, errno,
                   allowEscCombo, result, reads, keyRes, drawRes, word_delimiter, env, loop, screen, files>>

NextTerm == TermPutChar \/ TermGetChar

SpecTerm == InitHist /\ [][NextTerm]_vars

(***************************************************************************)
(* Key decoding (the Linux build): crossline_getkey reads the bytes of one *)
(* key from the terminal.  A byte is its code, a key the int the source    *)
(* builds for it.                                                          *)
(***************************************************************************)
\* the bytes a terminal sends for the keys below
Byte ==
    [BS |-> 8, ESC |-> 27, d1 |-> 49, d3 |-> 51, d4 |-> 52, d5 |-> 53, semi |-> 59,
     A |-> 65, B |-> 66, C |-> 67, D |-> 68, F |-> 70, H |-> 72, O |-> 79,
     lbracket |-> 91, a |-> 97, tilde |-> 126, DEL |-> 127]

Bytes == {Byte[n] : n \in DOMAIN Byte}

\* the macros that build key codes (lines 88-94)
ALT_KEY(key) == key + ((Byte.ESC + 1) * 256)
ESC_KEY3(ch) == (Byte.ESC * 256) + ch
ESC_KEY4(ch1, ch2) == (Byte.ESC * 256) + (ch1 * 65536) + ch2
ESC_KEY6(ch1, ch2, ch3) == (Byte.ESC * 256) + (ch1 * 65536) + (ch2 * 16777216) + ch3
ESC_OKEY(ch) == (Byte.ESC * 256) + (Byte.O * 65536) + ch

\* the key codes of the enum (lines 98-190, Linux)
Code ==
    [KEY_BACKSPACE |-> 8, KEY_ESC |-> 27, KEY_DEL2 |-> 127,
     KEY_DEL |-> ESC_KEY4(Byte.d3, Byte.tilde),
     KEY_HOME |-> ESC_KEY4(Byte.d1, Byte.tilde),
     KEY_END |-> ESC_KEY4(Byte.d4, Byte.tilde),
     KEY_UP |-> ESC_KEY3(Byte.A), KEY_DOWN |-> ESC_KEY3(Byte.B),
     KEY_LEFT |-> ESC_KEY3(Byte.D), KEY_RIGHT |-> ESC_KEY3(Byte.C),
     KEY_HOME2 |-> ESC_KEY3(Byte.H), KEY_END2 |-> ESC_KEY3(Byte.F),
     KEY_CTRL_UP |-> ESC_KEY6(Byte.d1, Byte.d5, Byte.A),
     KEY_CTRL_DOWN |-> ESC_KEY6(Byte.d1, Byte.d5, Byte.B),
     KEY_CTRL_LEFT |-> ESC_KEY6(Byte.d1, Byte.d5, Byte.D),
     KEY_CTRL_RIGHT |-> ESC_KEY6(Byte.d1, Byte.d5, Byte.C),
     KEY_CTRL_UP2 |-> ESC_OKEY(Byte.A), KEY_CTRL_DOWN2 |-> ESC_OKEY(Byte.B),
     KEY_CTRL_LEFT2 |-> ESC_OKEY(Byte.D), KEY_CTRL_RIGHT2 |-> ESC_OKEY(Byte.C),
     KEY_ALT_DEL |-> ESC_KEY6(Byte.d3, Byte.d3, Byte.tilde),
     KEY_ALT_HOME |-> ESC_KEY6(Byte.d1, Byte.d3, Byte.H),
     KEY_ALT_END |-> ESC_KEY6(Byte.d1, Byte.d3, Byte.F),
     KEY_ALT_UP |-> ESC_KEY6(Byte.d1, Byte.d3, Byte.A),
     KEY_ALT_DOWN |-> ESC_KEY6(Byte.d1, Byte.d3, Byte.B),
     KEY_ALT_LEFT |-> ESC_KEY6(Byte.d1, Byte.d3, Byte.D),
     KEY_ALT_RIGHT |-> ESC_KEY6(Byte.d1, Byte.d3, Byte.C),
     KEY_ALT_BACKSPACE |-> ALT_KEY(127),
     KEY_F1 |-> ESC_OKEY(80), KEY_F2 |-> ESC_OKEY(81),
     KEY_F3 |-> ESC_OKEY(82), KEY_F4 |-> ESC_OKEY(83),
     KEY_F1_2 |-> ESC_KEY4(Byte.lbracket, Byte.A),
     KEY_F2_2 |-> ESC_KEY4(Byte.lbracket, Byte.B),
     KEY_F3_2 |-> ESC_KEY4(Byte.lbracket, Byte.C),
     KEY_F4_2 |-> ESC_KEY4(Byte.lbracket, Byte.D)]

\* crossline_key_esc2alt with no key promoted
crossline_key_esc2alt_None(ch) == ch

\* crossline_key_esc2alt(ch): ESC+Key to Alt-Key
crossline_key_esc2alt(ch) ==
    CASE ch = Code.KEY_DEL -> Code.KEY_ALT_DEL
      [] ch = Code.KEY_HOME -> Code.KEY_ALT_HOME
      [] ch = Code.KEY_END -> Code.KEY_ALT_END
      [] ch = Code.KEY_UP -> Code.KEY_ALT_UP
      [] ch = Code.KEY_DOWN -> Code.KEY_ALT_DOWN
      [] ch = Code.KEY_LEFT -> Code.KEY_ALT_LEFT
      [] ch = Code.KEY_RIGHT -> Code.KEY_ALT_RIGHT
      [] ch = Code.KEY_BACKSPACE -> Code.KEY_ALT_BACKSPACE
      [] OTHER -> ch

\* crossline_key_mapping(ch): other function keys to the main key
crossline_key_mapping(ch) ==
    CASE ch = Code.KEY_HOME2 -> Code.KEY_HOME
      [] ch = Code.KEY_END2 -> Code.KEY_END
      [] ch = Code.KEY_CTRL_UP2 -> Code.KEY_CTRL_UP
      [] ch = Code.KEY_CTRL_DOWN2 -> Code.KEY_CTRL_DOWN
      [] ch = Code.KEY_CTRL_LEFT2 -> Code.KEY_CTRL_LEFT
      [] ch = Code.KEY_CTRL_RIGHT2 -> Code.KEY_CTRL_RIGHT
      [] ch = Code.KEY_F1_2 -> Code.KEY_F1
      [] ch = Code.KEY_F2_2 -> Code.KEY_F2
      [] ch = Code.KEY_F3_2 -> Code.KEY_F3
      [] ch = Code.KEY_F4_2 -> Code.KEY_F4
      [] ch = Code.KEY_DEL2 -> Code.KEY_BACKSPACE
      [] OTHER -> ch

\* Getch: the i-th byte of the input s, or -1 where the call would wait for
\* a byte that s does not hold
Getch(s, i) == IF i <= Len(s) THEN s[i] ELSE -1

\* crossline_get_esckey(cLine, ch) after used bytes of s were read: the key
\* and the number of bytes read by then
crossline_get_esckey(s, used, ch0) ==
    LET n  == IF ch0 = 0 THEN used + 1 ELSE used
        ch == IF ch0 = 0 THEN Getch(s, used + 1) ELSE ch0
    IN IF ch = Byte.lbracket
       THEN IF Getch(s, n + 1) >= 48 /\ Getch(s, n + 1) <= 54
            THEN IF Getch(s, n + 2) = Byte.tilde
                 THEN [ch |-> ESC_KEY4(Getch(s, n + 1), Getch(s, n + 2)), used |-> n + 2]
                 ELSE IF Getch(s, n + 2) = Byte.semi
                 THEN IF Getch(s, n + 3) # Byte.d5 /\ Getch(s, n + 3) # Byte.d3
                      THEN [ch |-> 0, used |-> n + 3]
                      ELSE [ch |-> ESC_KEY6(Getch(s, n + 1), Getch(s, n + 3),
                                            Getch(s, n + 4)),
                            used |-> n + 4]
                 ELSE [ch |-> Getch(s, n + 1), used |-> n + 2]
            ELSE IF Getch(s, n + 1) = Byte.lbracket
            THEN [ch |-> ESC_KEY4(Byte.lbracket, Getch(s, n + 2)), used |-> n + 2]
            ELSE [ch |-> ESC_KEY3(Getch(s, n + 1)), used |-> n + 1]
       ELSE IF ch = Byte.O
       THEN [ch |-> ESC_OKEY(Getch(s, n + 1)), used |-> n + 1]
       ELSE [ch |-> ALT_KEY(ch), used |-> n]

\* crossline_getkey(cLine, is_esc, check_esc) on the input s
crossline_getkey(s, check_esc) ==
    IF check_esc /\ Getch(s, 1) = Byte.ESC
    THEN IF Getch(s, 2) = Byte.ESC
         THEN LET k == crossline_get_esckey(s, 2, 0)
              IN [ch |-> crossline_key_esc2alt(crossline_key_mapping(k.ch)),
                  is_esc |-> TRUE, used |-> k.used]
         ELSE LET k == crossline_get_esckey(s, 2, Getch(s, 2))
              IN [ch |-> k.ch, is_esc |-> TRUE, used |-> k.used]
    ELSE [ch |-> Getch(s, 1), is_esc |-> Getch(s, 1) = Byte.ESC, used |-> 1]

\* the key ReadlineEdit dispatches on (1685-1686)
ReadKey(s, check_esc) ==
    [crossline_getkey(s, check_esc)
     EXCEPT !.ch = crossline_key_mapping(crossline_getkey(s, check_esc).ch)]

\* the default branch of the switch ends the read on an ESC that was not
\* decoded (2192-2198); KEY_ESC has no case of its own
EndsRead(key, allowEsc) == key.ch = Code.KEY_ESC /\ key.is_esc /\ ~allowEsc

(***************************************************************************)
(* SpecKeys: the terminal sends the bytes of a key and ReadlineEdit reads  *)
(* a key, with escape combos allowed or not                                *)
(***************************************************************************)
MaxSeq == 7   \* bytes of the longest key, ESC ESC [ 1 ; 5 A

\* the inputs of n bytes after which crossline_getkey still waits for a byte
RECURSIVE Waiting(_)
Waiting(n) ==
    IF n = 0 THEN {<<>>}
    ELSE {t \in {Append(s, b) : s \in Waiting(n - 1), b \in Bytes} :
            crossline_getkey(t, TRUE).used > n}

\* the byte sequences of one key: the inputs crossline_getkey reads to the
\* last byte when escape combos are allowed
KeySeqs ==
    UNION {{t \in {Append(s, b) : s \in Waiting(n), b \in Bytes} :
              crossline_getkey(t, TRUE).used = n + 1} : n \in 0..(MaxSeq - 1)}

\* ReadlineEdit reads its first key from the bytes s the terminal has sent
GetKey ==
    /\ keyRes = NoCall
    /\ \E s \in KeySeqs, check_esc \in BOOLEAN :
           keyRes' = [op |-> "getkey", bytes |-> s, check_esc |-> check_esc,
                      key |-> ReadKey(s, check_esc),
                      read_end |-> IF EndsRead(ReadKey(s, check_esc), check_esc)
                                   THEN -1 ELSE 0]
    /\ UNCHANGED <<histVars, compVars, start, end, pc, stack, clip_buf, termBuf, errno,
                   allowEscCombo, result, reads, term, drawRes, word_delimiter, env, loop, screen, files>>

NextKeys == GetKey

SpecKeys == InitHist /\ [][NextKeys]_vars

(***************************************************************************)
(* What Refresh sends to the terminal (the Linux build, s_crossline_win    *)
(* is 0): the calls it makes, in order                                     *)
(***************************************************************************)
\* int division of C, which truncates towards zero
CDiv(a, b) == IF a >= 0 THEN a \div b ELSE -((-a) \div b)

\* int remainder of C, which has the sign of the dividend
CMod(a, b) == a - (b * CDiv(a, b))

\* a call of CursorMove(row_off, col_off)
CursorMove(row_off, col_off) == [op |-> "CursorMove", row |-> row_off, col |-> col_off]

\* Refresh for MOVE_CURSOR with the row of the cursor left as it is
MoveCursor_SameRow(prLen, cols, pCurPos, new_pos) ==
    <<CursorMove(0, CMod(new_pos + prLen, cols) - CMod(pCurPos + prLen, cols))>>

\* Refresh for MOVE_CURSOR (1290-1302): just move cursor
MoveCursor(prLen, cols, pCurPos, new_pos) ==
    <<CursorMove(CDiv(new_pos + prLen, cols) - CDiv(pCurPos + prLen, cols),
                 CMod(new_pos + prLen, cols) - CMod(pCurPos + prLen, cols))>>

\* n blanks
Blanks(n) == [i \in 1..n |-> Space]

\* the end of the drawing branch without the ShowCursor(true) of 1471
DrawTail_LeavesHidden(prLen, cols, pCurNum, new_pos, new_num, text, written) ==
    LET nl1  == IF new_num > 0 /\ CMod(new_num + prLen, cols) = 0 THEN <<"\n">> ELSE <<>>
        cnt  == pCurNum - new_num
        w1   == IF cnt > 0 THEN written + cnt ELSE written
        t1   == text \o nl1 \o (IF cnt > 0 THEN Blanks(cnt) ELSE <<>>)
        more == CDiv(pCurNum + prLen, cols) < CDiv(w1 + prLen, cols)
        w2   == IF more THEN w1 + (cols - CMod(w1, cols)) ELSE w1
        t2   == IF more THEN t1 \o Blanks(cols - CMod(w1, cols)) ELSE t1
        nl2  == IF pCurNum > new_num /\ CMod(pCurNum + prLen, cols) = 0
                THEN <<"\n">> ELSE <<>>
        rows == CDiv(w2 + prLen - 1, cols) - CDiv(new_pos + prLen, cols)
    IN <<[op |-> "PrintStr", text |-> t2 \o nl2],
         CursorMove(-(IF rows < 0 THEN 0 ELSE rows),
                    CMod(new_pos + prLen, cols) - CMod(w2 + prLen, cols))>>

\* the end of the drawing branch (1384-1466): text is writeBuf and written
\* lenWritten after the line or its tail was put in; b is buf as cut to new_num
DrawTail(prLen, cols, pCurNum, new_pos, new_num, text, written) ==
    LET nl1  == IF new_num > 0 /\ CMod(new_num + prLen, cols) = 0 THEN <<"\n">> ELSE <<>>
        cnt  == pCurNum - new_num
        w1   == IF cnt > 0 THEN written + cnt ELSE written
        t1   == text \o nl1 \o (IF cnt > 0 THEN Blanks(cnt) ELSE <<>>)
        more == CDiv(pCurNum + prLen, cols) < CDiv(w1 + prLen, cols)
        w2   == IF more THEN w1 + (cols - CMod(w1, cols)) ELSE w1
        t2   == IF more THEN t1 \o Blanks(cols - CMod(w1, cols)) ELSE t1
        nl2  == IF pCurNum > new_num /\ CMod(pCurNum + prLen, cols) = 0
                THEN <<"\n">> ELSE <<>>
        rows == CDiv(w2 + prLen - 1, cols) - CDiv(new_pos + prLen, cols)
    IN <<[op |-> "PrintStr", text |-> t2 \o nl2],
         CursorMove(-(IF rows < 0 THEN 0 ELSE rows),
                    CMod(new_pos + prLen, cols) - CMod(w2 + prLen, cols)),
         [op |-> "ShowCursor", show |-> TRUE]>>

\* Refresh for DRAW_ALL and DRAW_FROM_POS (1303-1466) on buf b, already cut
\* to new_num, with drawPos inside it
Draw(prLen, cols, pCurPos, pCurNum, b, new_pos, new_num, updateType, drawPos) ==
    <<[op |-> "ShowCursor", show |-> FALSE]>>
    \o (IF updateType = "DRAW_FROM_POS"
        THEN <<CursorMove(CDiv(drawPos + prLen - 1, cols) - CDiv(pCurPos + prLen, cols),
                          CMod(prLen + drawPos, cols) - CMod(prLen + pCurPos, cols))>>
             \o DrawTail(prLen, cols, pCurNum, new_pos, new_num, SubstrFrom(b, drawPos),
                         drawPos + Len(SubstrFrom(b, drawPos)))
        ELSE <<CursorMove(-CDiv(pCurPos + prLen, cols), -CMod(prLen + pCurPos, cols)),
               [op |-> "ColorSet"], [op |-> "PrintStr", text |-> "prompt"],
               [op |-> "ColorSet"]>>
             \o DrawTail(prLen, cols, pCurNum, new_pos, new_num, b, Len(b)))

\* the calls Refresh makes to the terminal, for frame f as Refresh found it
\* and g as it left it
RefreshOut(prLen, cols, f, g, new_pos, new_num, updateType, drawPosIn) ==
    IF updateType = "MOVE_CURSOR" THEN MoveCursor(prLen, cols, f.pos, new_pos)
    ELSE IF g.thrown THEN <<[op |-> "ShowCursor", show |-> FALSE]>>
    ELSE Draw(prLen, cols, f.pos, f.num, g.buf, new_pos, new_num, updateType,
              IF updateType = "DRAW_ALL" THEN 0 ELSE drawPosIn)

(***************************************************************************)
(* SpecRefresh: ReadlineEdit calls Refresh on a line it holds              *)
(***************************************************************************)
MaxText == 4                  \* length of the line
ScreenWidths == {3, 160}      \* screenCols: a narrow terminal and the default
PromptLens == {0, 2, 11}      \* prompt.length(): none, "> ", "Crossline> "

\* the lines ReadlineEdit holds: buf, the cursor pos and the length num
Lines ==
    {[buf |-> [i \in 1..n |-> "a"], pos |-> p, num |-> n, thrown |-> FALSE] :
        n \in 0..MaxText, p \in 0..MaxText}

\* the first call of Refresh: the MOVE_CURSOR calls pass num as new_num
\* (1690-2165)
CallRefresh ==
    /\ drawRes = NoCall
    /\ \E f \in {l \in Lines : l.pos <= l.num}, prLen \in PromptLens, cols \in ScreenWidths,
       updateType \in {"MOVE_CURSOR", "DRAW_ALL", "DRAW_FROM_POS"} :
        \E new_num \in IF updateType = "MOVE_CURSOR" THEN {f.num} ELSE 0..f.num :
            \E new_pos \in 0..new_num, drawPos \in 0..new_num :
                /\ updateType # "DRAW_FROM_POS" => drawPos = 0
                /\ drawRes' = [op |-> "Refresh", prLen |-> prLen, cols |-> cols,
                               before |-> f, new_pos |-> new_pos, new_num |-> new_num,
                               updateType |-> updateType,
                               after |-> Refresh(f, new_pos, new_num, updateType, drawPos),
                               out |-> RefreshOut(prLen, cols, f,
                                                  Refresh(f, new_pos, new_num,
                                                          updateType, drawPos),
                                                  new_pos, new_num, updateType, drawPos)]
    /\ UNCHANGED <<histVars, compVars, start, end, pc, stack, clip_buf, termBuf, errno,
                   allowEscCombo, result, reads, term, keyRes, word_delimiter, env, loop, screen, files>>

NextRefresh == CallRefresh

SpecRefresh == InitHist /\ [][NextRefresh]_vars

(***************************************************************************)
(* Claims about the read loop                                              *)
(***************************************************************************)
\* the read that waits for a key, before and after a step
Cur == stack[Len(stack)]
CurNext == stack'[Len(stack')]

\* a ReadLine call has returned
Returned == pc = "idle" /\ result # NoCall

\* C1 as stated: whenever a read waits for its next key, 0 <= pos <= num and
\* num is at most the length of the text in buf.
C1_BufferInvariant ==
    pc = "read" =>
        /\ 0 <= Cur.pos
        /\ Cur.pos <= Cur.num
        /\ Cur.num <= Len(Cur.buf)

\* C2 as stated: a ReadLine call that Enter ended returns true, whatever the
\* buffer held.
C2_EnterAccepts == Returned /\ result.cause = "enter" => result.accepted

\* C3 as stated: the step that ends a read appends the returned text to the
\* history, once, exactly when the read is a ReadLine call that returned true
\* and the text differs from the last entry; when a sub-read ends, or the
\* call returns false, the history stays as it is.
C3_HistoryAppend ==
    [][(pc = "read" /\ Len(stack') < Len(stack)) =>
          history' = IF /\ pc' = "idle"
                        /\ result'.accepted
                        /\ result'.text # <<>>
                        /\ (history = <<>> \/ result'.text # history[Len(history)])
                     THEN Append(history, result'.text)
                     ELSE history]_vars

\* C4 as stated: a ReadLine call that Ctrl-C or Ctrl-G ended returned false
\* with errno set, and the history is the store the call started with.
C4_CtrlCKeepsStore ==
    Returned /\ result.cause = "ctrlc" =>
        /\ ~result.accepted
        /\ errno = "EAGAIN"
        /\ history = result.hist0

\* C4 amended: a ReadLine call that Ctrl-C or Ctrl-G ended returned false
\* with errno set; the history is the store the call started with, unless a
\* confirmed F3 cleared it during the call, and then it is empty.
C4_CtrlCCancels ==
    Returned /\ result.cause = "ctrlc" =>
        /\ ~result.accepted
        /\ errno = "EAGAIN"
        /\ history = IF result.cleared THEN <<>> ELSE result.hist0

\* a call that started with a non-empty store, had it cleared with F3 and
\* was then ended by Ctrl-C
C4_Witness ==
    /\ Returned
    /\ result.cause = "ctrlc"
    /\ ~result.accepted
    /\ errno = "EAGAIN"
    /\ result.cleared
    /\ result.hist0 # <<>>
    /\ history = <<>>

\* C5 as stated: Ctrl-D with text in the buffer does not end the read; with
\* the cursor before the length it deletes exactly the character at the
\* cursor, the length goes down by one and the cursor stays; with the cursor
\* at the end nothing changes.
C5_CtrlDDeletes ==
    [][(KeyCtrlD /\ Cur.buf # <<>>) =>
          /\ pc' = "read"
          /\ Len(stack') = Len(stack)
          /\ IF Cur.pos < Cur.num
             THEN /\ CurNext.buf = Erase(Cur.buf, Cur.pos, 1)
                  /\ Len(CurNext.buf) = Len(Cur.buf) - 1
                  /\ CurNext.num = Cur.num - 1
                  /\ CurNext.pos = Cur.pos
             ELSE /\ CurNext.buf = Cur.buf
                  /\ CurNext.num = Cur.num
                  /\ CurNext.pos = Cur.pos]_vars

\* the read that started the sub-read which waits for a key
Parent == stack[Len(stack) - 1]

\* the keys a restricted-choice read offers
OfferedKeys == IF pc = "read" THEN {c[1] : c \in Range(Cur.choices)} ELSE {}

\* key k typed into an empty completion pick read that offers it
PickSelects(k) ==
    /\ Editing
    /\ Cur.kind = "pick"
    /\ Cur.buf = <<>>
    /\ <<k>> \in DOMAIN Cur.ctx.matches
    /\ Key(KEY_CHAR(Machine, k))

\* a candidate's word, wrapped in quotes if flagged
Quoted(c) == IF c.needQuotes THEN <<Quote>> \o c.word \o <<Quote>> ELSE c.word

\* the candidate key k stands for
Candidate(k) == Quoted(items[Cur.ctx.matches[<<k>>] + 1])

\* C11 as stated: selecting candidate c in the pick read leaves the buffer
\* old[0,start) + c + old[end..], the length equal to the real length of the
\* buffer and the cursor right after c.
C11_PickSplices ==
    [][\A k \in OfferedKeys :
          PickSelects(k) =>
              /\ pc' = "read"
              /\ Len(stack') = Len(stack) - 1
              /\ CurNext.buf = Substr(Cur.ctx.old, 0, start) \o Candidate(k)
                               \o SubstrFrom(Cur.ctx.old, end)
              /\ CurNext.num = Len(CurNext.buf)
              /\ CurNext.pos = start + Len(Candidate(k))]_vars

\* Tab pressed in a read that completes
TabStep == Editing /\ ~Cur.edit_only /\ Key(KEY_TAB(Machine, "KEY_TAB"))

\* a step of the pick read that is its last
PickEnds ==
    /\ pc = "read"
    /\ Cur.kind = "pick"
    /\ (Len(stack') # Len(stack) \/ pc' # "read")

\* C12 as stated: Tab with exactly one candidate splices it into the span and
\* enters no pick read; Tab with more than one candidate enters the pick
\* read; however the pick read ends, the read that started it waits for its
\* next key.
C12_TabFlow ==
    [][/\ (TabStep /\ Len(items') = 1) =>
              /\ pc' = "read"
              /\ Len(stack') = Len(stack)
              /\ CurNext.buf = Substr(Cur.buf, 0, start') \o Quoted(items'[1])
                               \o SubstrFrom(Cur.buf, end')
       /\ (TabStep /\ Len(items') > 1) =>
              /\ pc' = "read"
              /\ Len(stack') = Len(stack) + 1
              /\ CurNext.kind = "pick"
       /\ PickEnds =>
              /\ pc' = "read"
              /\ Len(stack') = Len(stack) - 1
              /\ CurNext.read_end = 0]_vars

\* Up would run a history search (the test at line 2005)
UpSearches ==
    /\ Cur.canHis
    /\ Cur.has_his
    /\ Cur.hisSearch > 0
    /\ Cur.pos > 0
    /\ Len(Cur.buf) = Cur.pos

\* the read browses: a ReadLine call with entries in the store at its start
Browsing == Editing /\ Cur.kind = "top" /\ Cur.has_his

\* the text a browse goes back to: the buffer at its first Up or Down
PreBrowse == IF Cur.copy_buf = 0 THEN Cur.buf ELSE Cur.input

C14_BrowseResets ==
    [][/\ (pc = "idle" /\ pc' = "read") =>
              /\ CurNext.history_id = Len(history')
              /\ CurNext.copy_buf = 0
              /\ CurNext.has_his = (history' # <<>>)
       /\ (/\ Editing
           /\ Cur = NewFrame("top", <<>>, FALSE, FALSE, <<>>, history, NoCtx)
           /\ history # <<>>
           /\ Key(KEY_UP(Machine))) =>
              /\ CurNext.buf = history[Len(history)]
              /\ CurNext.history_id = Len(history) - 1]_vars

\* the first read browsed to the oldest entry and accepted it; the second
\* read's first Up shows the newest entry, the one just added
C14_Witness ==
    /\ reads = 2
    /\ pc = "read"
    /\ result.cause = "enter"
    /\ result.accepted
    /\ result.text = history[1]
    /\ Len(history) = 3
    /\ Cur.kind = "top"
    /\ ~Cur.canHis
    /\ Cur.copy_buf = 1
    /\ Cur.input = <<>>
    /\ Cur.history_id = 2
    /\ Cur.buf = history[3]

\* the entries of the store a search for text pat lists, newest first
MatchingAt(pat) ==
    {i \in 1..Len(history) :
       /\ Len(history[i]) > 0
       /\ Find(history[i], pat) # npos
       /\ history_noSearchRepeats =>
              \A j \in (i + 1)..Len(history) : history[j] # history[i]}

Matching(pat) ==
    [n \in 1..Cardinality(MatchingAt(pat)) |->
       history[CHOOSE i \in MatchingAt(pat) :
                 Cardinality({j \in MatchingAt(pat) : j > i}) = n - 1]]

\* what Up leaves when it searches with the buffer as pattern: the buffer
\* as it was for no match, the entry for one match, the id prompt for more
SearchedFromUp ==
    /\ pc' = "read"
    /\ IF Len(Matching(Cur.buf)) > 1
       THEN /\ Len(stack') = Len(stack) + 1
            /\ CurNext.kind = "hid"
            /\ stack'[Len(stack)].buf = Cur.buf
       ELSE /\ Len(stack') = Len(stack)
            /\ CurNext.buf = IF Len(Matching(Cur.buf)) = 1 THEN Matching(Cur.buf)[1]
                             ELSE Cur.buf
            /\ CurNext.num = Len(CurNext.buf)
            /\ CurNext.pos = CurNext.num
            /\ CurNext.read_end = 0

\* the id prompt of a search started by Up ends: the read that searched waits
\* for a key, with the entry of the key typed, or its text as it was
IdPromptEnds ==
    /\ pc = "read"
    /\ Cur.kind = "hid"
    /\ Cur.ctx.from = "up"
    /\ (Len(stack') # Len(stack) \/ pc' # "read")

ChosenFromUp ==
    /\ pc' = "read"
    /\ Len(stack') = Len(stack) - 1
    /\ CurNext.read_end = 0
    /\ CurNext.num = Len(CurNext.buf)
    /\ CurNext.pos = CurNext.num
    /\ \/ /\ CurNext.buf = Cur.ctx.old
          /\ ~\E k \in OfferedKeys : Cur.buf = <<>> /\ termBuf = <<>> /\ Key(KEY_CHAR(Machine, k))
       \/ \E k \in OfferedKeys :
              /\ Cur.buf = <<>>
              /\ termBuf = <<>>
              /\ Key(KEY_CHAR(Machine, k))
              /\ CurNext.buf = history[Cur.ctx.matches[<<k>>] + 1]
              /\ Find(CurNext.buf, Cur.ctx.old) # npos

ChoiceRead(m1) ==
    (Len(m1.stack) = Len(stack) /\ ~Top(m1).thrown /\ Key(m1)) =>
        LET typed  == Top(m1).buf
            after  == ChoicesCheck(Top(m1))
            equals == typed \in Range(Cur.choices)
            prefix == \E c \in Range(Cur.choices) : IsPrefix(typed, c) /\ typed # c
        IN /\ (after.read_end # 0 /\ ReturnedValue(after)) =>
                  /\ equals
                  /\ ReturnedBuf(after) = typed
                  /\ termBuf' = m1.termBuf
           /\ (prefix /\ ~equals /\ Top(m1).read_end = 0) =>
                  /\ after.read_end = 0
                  /\ pc' = "read"
                  /\ Len(stack') = Len(stack)
                  /\ CurNext.buf = typed
                  /\ termBuf' = m1.termBuf
           /\ (typed # <<>> /\ ~equals /\ ~prefix) =>
                  /\ after.read_end # 0
                  /\ ~ReturnedValue(after)
                  /\ ReturnedBuf(after) = <<>>
                  /\ Len(stack') = Len(stack) - 1
                  /\ Len(termBuf') = Len(m1.termBuf) + Len(typed)
                  /\ \A i \in 1..Len(typed) : termBuf'[Len(m1.termBuf) + i] = typed[i]

C17_PushBackLIFO ==
    [][term'.gets = term.gets + 1 =>
          /\ term.live # <<>> => term'.got = term.live[Len(term.live)]
          /\ term.live = <<>> => term'.got = RawByte]_vars

\* the key read from bytes s with escape combos allowed
Decoded(s) == ReadKey(s, TRUE).ch

\* C18: with escape combos enabled, ESC[H and ESC[1~ are Home, ESC[F and
\* ESC[4~ are End, ESC O A/B/C/D are Ctrl-Up/Down/Right/Left, ESC[[A..D are
\* F1..F4 and byte 127 is Backspace; a key that arrives as ESC, ESC and its
\* sequence is, after that, its Alt variant for Up, Down, Left, Right, Home,
\* End, Delete and Backspace.
C18_KeyDecoding ==
    (keyRes # NoCall /\ keyRes.check_esc) =>
        LET s  == keyRes.bytes
            ch == keyRes.key.ch
            E  == Byte.ESC
            L  == Byte.lbracket
        IN /\ keyRes.key.used = Len(s)
           /\ s \in {<<E, L, Byte.H>>, <<E, L, Byte.d1, Byte.tilde>>} => ch = Code.KEY_HOME
           /\ s \in {<<E, L, Byte.F>>, <<E, L, Byte.d4, Byte.tilde>>} => ch = Code.KEY_END
           /\ s = <<E, Byte.O, Byte.A>> => ch = Code.KEY_CTRL_UP
           /\ s = <<E, Byte.O, Byte.B>> => ch = Code.KEY_CTRL_DOWN
           /\ s = <<E, Byte.O, Byte.C>> => ch = Code.KEY_CTRL_RIGHT
           /\ s = <<E, Byte.O, Byte.D>> => ch = Code.KEY_CTRL_LEFT
           /\ s = <<E, L, L, Byte.A>> => ch = Code.KEY_F1
           /\ s = <<E, L, L, Byte.B>> => ch = Code.KEY_F2
           /\ s = <<E, L, L, Byte.C>> => ch = Code.KEY_F3
           /\ s = <<E, L, L, Byte.D>> => ch = Code.KEY_F4
           /\ s = <<Byte.DEL>> => ch = Code.KEY_BACKSPACE /\ ~keyRes.key.is_esc
           /\ (Len(s) > 2 /\ s[1] = E /\ s[2] = E) =>
                 LET plain == Decoded(SubSeq(s, 2, Len(s)))
                 IN /\ plain = Code.KEY_UP => ch = Code.KEY_ALT_UP
                    /\ plain = Code.KEY_DOWN => ch = Code.KEY_ALT_DOWN
                    /\ plain = Code.KEY_LEFT => ch = Code.KEY_ALT_LEFT
                    /\ plain = Code.KEY_RIGHT => ch = Code.KEY_ALT_RIGHT
                    /\ plain = Code.KEY_HOME => ch = Code.KEY_ALT_HOME
                    /\ plain = Code.KEY_END => ch = Code.KEY_ALT_END
                    /\ plain = Code.KEY_DEL => ch = Code.KEY_ALT_DEL
           /\ s = <<E, E, Byte.DEL>> => ch = Code.KEY_ALT_BACKSPACE

\* ESC ESC [ H was read with escape combos enabled: Alt-Home
C18_Witness ==
    /\ keyRes # NoCall
    /\ keyRes.check_esc
    /\ keyRes.bytes = <<Byte.ESC, Byte.ESC, Byte.lbracket, Byte.H>>
    /\ keyRes.key.ch = Code.KEY_ALT_HOME

\* C19: with escape combos disabled only the ESC+Key reading is off: a key
\* sent as one ESC and its sequence, such as ESC [ A (Up) or ESC [ D (Left),
\* is still read as that key and the read does not end.
C19_CombosOffKeepsKeys ==
    (keyRes # NoCall /\ ~keyRes.check_esc) =>
        /\ keyRes.bytes = <<Byte.ESC, Byte.lbracket, Byte.A>> =>
               keyRes.key.ch = Code.KEY_UP /\ keyRes.read_end = 0
        /\ keyRes.bytes = <<Byte.ESC, Byte.lbracket, Byte.D>> =>
               keyRes.key.ch = Code.KEY_LEFT /\ keyRes.read_end = 0
        /\ (Len(keyRes.bytes) > 1 /\ keyRes.bytes[1] = Byte.ESC
            /\ keyRes.bytes[2] # Byte.ESC) =>
               /\ keyRes.key.ch = Decoded(keyRes.bytes)
               /\ keyRes.key.used = Len(keyRes.bytes)
               /\ keyRes.read_end = 0

\* C20: a MOVE_CURSOR refresh leaves the text and the length of the buffer
\* as they are; it records the new cursor and makes one CursorMove call with
\* row (L+new)/cols - (L+old)/cols and column (L+new)%cols - (L+old)%cols,
\* L the prompt length; it prints no text and does not call ShowCursor.
C20_MoveOnly ==
    (drawRes # NoCall /\ drawRes.updateType = "MOVE_CURSOR") =>
        LET L   == drawRes.prLen
            old == drawRes.before.pos
            new == drawRes.new_pos
        IN /\ drawRes.after.buf = drawRes.before.buf
           /\ drawRes.after.num = drawRes.before.num
           /\ drawRes.after.pos = new
           /\ Len(drawRes.out) = 1
           /\ drawRes.out[1].op = "CursorMove"
           /\ drawRes.out[1].row = ((L + new) \div drawRes.cols) - ((L + old) \div drawRes.cols)
           /\ drawRes.out[1].col = ((L + new) % drawRes.cols) - ((L + old) % drawRes.cols)
           /\ \A i \in 1..Len(drawRes.out) :
                  drawRes.out[i].op \notin {"PrintStr", "ShowCursor", "ColorSet"}

\* a MOVE_CURSOR refresh took the cursor from the second screen row back to
\* the first
C20_Witness ==
    /\ drawRes # NoCall
    /\ drawRes.updateType = "MOVE_CURSOR"
    /\ drawRes.cols = 3
    /\ drawRes.prLen = 2
    /\ drawRes.before.pos = 2
    /\ drawRes.new_pos = 0
    /\ drawRes.out = <<CursorMove(-1, 1)>>

\* the read waits for a key that it will take as text: no choices restrict it
Typing == Editing /\ Len(Cur.choices) = 0

\* the innermost read after character c was typed and Backspace pressed
TypedAndErased(c) == Top(KEY_BACKSPACE(KEY_CHAR(Machine, c)))

\* C25: for every buffer, cursor position and printable character c, typing
\* c and then pressing Backspace restores the buffer text, the length and the
\* cursor.
C25_InsertBackspace ==
    Typing =>
        \A c \in Chars :
            /\ ~Top(KEY_CHAR(Machine, c)).thrown
            /\ ~TypedAndErased(c).thrown
            /\ TypedAndErased(c).buf = Cur.buf
            /\ TypedAndErased(c).num = Cur.num
            /\ TypedAndErased(c).pos = Cur.pos

(***************************************************************************)
(* SpecWords: a ReadLine call in which the user types words and moves the  *)
(* cursor over them, after the program chose its word delimiters           *)
(***************************************************************************)
MaxWordText == 3
WordChars == {"a", Space, "."}
\* the delimiter strings the program passes to SetDelimiter
DelimiterSets == {{Space}, {"a", "."}}

\* Crossline::SetDelimiter(delim) with a non-empty delim, before the read
SetDelimiter ==
    \E delim \in DelimiterSets :
        /\ pc = "idle"
        /\ reads = 0
        /\ word_delimiter = CROSS_DFT_DELIMITER
        /\ word_delimiter' = delim
        /\ UNCHANGED <<history, history_noSearchRepeats, history_search_no, dumpRes,
                       items, common, start, end, pc, stack, clip_buf, termBuf, errno,
                       allowEscCombo, result, reads, term, keyRes, drawRes, env, loop, screen, files>>

WordKey(m1) == ApplyUpTo(Settle(Len(stack), m1), MaxWordText)

TypeWordChar == Editing /\ \E c \in WordChars : WordKey(KEY_CHAR(Machine, c))
WordCursorLeft == Editing /\ WordKey(KEY_LEFT(Machine))
WordCursorRight == Editing /\ WordKey(KEY_RIGHT(Machine))
KeyAltB == Editing /\ \E mem \in GarbageMem : WordKey(ALT_B(Machine, word_delimiter, mem))
KeyAltF == Editing /\ \E mem \in GarbageMem : WordKey(ALT_F(Machine, word_delimiter, mem))

NextWords ==
    \/ SetDelimiter
    \/ ReadLine
    \/ TypeWordChar
    \/ WordCursorLeft
    \/ WordCursorRight
    \/ KeyAltB
    \/ KeyAltF

SpecWords == Init /\ [][NextWords]_vars

\* the character of the line at offset i is a word character
WordCharAt(i) == i >= 0 /\ i < Cur.num /\ ~isdelim(word_delimiter, Cur.buf[i + 1])

\* the cursor is at the first character of a word, at the end of a word,
\* strictly inside a word
AtWordStart == WordCharAt(Cur.pos) /\ ~WordCharAt(Cur.pos - 1)
AtWordEnd == WordCharAt(Cur.pos - 1) /\ ~WordCharAt(Cur.pos)
InsideWord == WordCharAt(Cur.pos - 1) /\ WordCharAt(Cur.pos)

\* the cursor after Alt-F then Alt-B, and after Alt-B then Alt-F
RightThenLeft(mem) ==
    Top(ALT_B(ALT_F(Machine, word_delimiter, mem), word_delimiter, mem)).pos
LeftThenRight(mem) ==
    Top(ALT_F(ALT_B(Machine, word_delimiter, mem), word_delimiter, mem)).pos

\* C26: as stated: from every cursor position p that is not at a word
\* boundary (p is strictly inside a word), Alt-F then Alt-B returns the cursor
\* to p, and so does Alt-B then Alt-F.
C26_RoundTripOffBoundary ==
    (Typing /\ InsideWord) =>
        \A mem \in GarbageMem : RightThenLeft(mem) = Cur.pos /\ LeftThenRight(mem) = Cur.pos

\* C26: amended: Alt-F then Alt-B returns the cursor to p when p is the start
\* of a word that does not begin at offset 1; Alt-B then Alt-F returns it to
\* p when p is the end of a word; strictly inside a word neither round trip
\* returns to p: the first ends at the start of the word or at offset 0, the
\* second at the end of the word.
C26_WordRoundTrip ==
    Typing =>
        \A mem \in GarbageMem :
            /\ (AtWordStart /\ Cur.pos # 1) => RightThenLeft(mem) = Cur.pos
            /\ AtWordEnd => LeftThenRight(mem) = Cur.pos
            /\ InsideWord =>
                   /\ RightThenLeft(mem) < Cur.pos
                   /\ LeftThenRight(mem) > Cur.pos

\* the cursor is at the second word of a line, and the round trip over that
\* word comes back to it
C26_Witness ==
    /\ Typing
    /\ Cur.pos = 2
    /\ AtWordStart
    /\ \A mem \in GarbageMem :
           /\ Top(ALT_F(Machine, word_delimiter, mem)).pos = 3
           /\ RightThenLeft(mem) = 2

\* text old with the span clip taken out of it is text new
Removed(old, new, clip) ==
    \E i \in 0..Len(new) :
        old = SubSeq(new, 1, i) \o clip \o SubSeq(new, i + 1, Len(new))

\* a cut handler leaves in the register the span it removed from the line
CutsSpan(m1) ==
    ~Top(m1).thrown => Removed(Cur.buf, Top(m1).buf, m1.clip_buf)

\* the cut keys of the session: Ctrl-K, Ctrl-U, Ctrl-X
CutResults == {CTRL_K(Machine), CTRL_U(Machine), CTRL_X(Machine)}

\* paste puts the register at the cursor and keeps it
PasteInserts ==
    LET m1 == CTRL_Y(Machine)
    IN /\ ~Top(m1).thrown
       /\ Top(m1).buf = Insert(Cur.buf, Cur.pos, clip_buf)
       /\ Top(m1).pos = Cur.pos + Len(clip_buf)
       /\ Top(m1).num = Cur.num + Len(clip_buf)
       /\ m1.clip_buf = clip_buf

\* C27: the clip register changes only in a step of a cut key, which leaves
\* in it exactly the span it removed from the line; paste inserts the
\* register at the cursor, advances cursor and length by its size and leaves
\* the register as it was, also across sub-reads and reads.
C27_ClipRegister ==
    [][/\ Editing => (PasteInserts /\ \A m1 \in CutResults : CutsSpan(m1))
       /\ clip_buf' # clip_buf =>
              /\ Editing
              /\ \E m1 \in CutResults : clip_buf' = m1.clip_buf /\ CutsSpan(m1)]_vars

\* a sub-read waits for a key
InSubRead == Editing /\ Len(stack) >= 2

\* the machine once the key handled as m1 has ended the sub-read and the
\* handler that started it has finished
AfterCancel(m1) == Settle(Len(stack), m1)

\* the cancelled sub-read is gone, its parent waits for a key with the line
\* it had, and the history is as it was
CancelKeeps(m1) ==
    /\ AfterCancel(m1).pc = "read"
    /\ Len(AfterCancel(m1).stack) = Len(stack) - 1
    /\ Top(AfterCancel(m1)).buf = Parent.buf
    /\ Top(AfterCancel(m1)).pos = Parent.pos
    /\ Top(AfterCancel(m1)).num = Parent.num
    /\ AfterCancel(m1).history = history

\* C28: Ctrl-C or Ctrl-G, and Ctrl-D on an empty buffer, in a sub-read end
\* only the sub-read: the parent read goes on waiting for a key with the
\* buffer, the cursor and the length it had when the sub-read started, and
\* the history is unchanged.
C28_CancelSubRead ==
    InSubRead =>
        /\ CancelKeeps(CTRL_C(Machine))
        /\ Cur.num = 0 => CancelKeeps(KEY_DEL(Machine, "CTRL_D"))

\* a prompt of a search started by Ctrl-R waits for a key
SearchPrompt == InSubRead /\ Cur.kind \in {"hpat", "hid"} /\ Cur.ctx.from = "search"

\* the read that searched has the entry as its text, the cursor at its end
HasEntry(entry) ==
    /\ pc' = "read"
    /\ Len(stack') = 1
    /\ CurNext.buf = entry
    /\ CurNext.num = Len(entry)
    /\ CurNext.pos = Len(entry)

\* what Ctrl-R leaves in one step: the pattern prompt for an empty buffer,
\* the id prompt for several matches, the entry for one match, the text as it
\* was for none
SearchedFromCtrlR ==
    /\ pc' = "read"
    /\ IF Cur.buf = <<>>
       THEN Len(stack') = 2 /\ CurNext.kind = "hpat" /\ stack'[1].buf = Cur.buf
       ELSE IF Len(Matching(Cur.buf)) > 1
       THEN Len(stack') = 2 /\ CurNext.kind = "hid" /\ stack'[1].buf = Cur.buf
       ELSE IF Len(Matching(Cur.buf)) = 1 THEN HasEntry(Matching(Cur.buf)[1])
       ELSE Len(stack') = 1 /\ CurNext.buf = Cur.buf

\* C30: Ctrl-R (Ctrl-S, F4) in a ReadLine call with a non-empty history
\* searches from any cursor position; an entry found alone or chosen at the id
\* prompt becomes the buffer with the cursor at its end; with nothing found or
\* the search cancelled the buffer text is as it was.
C30_ExplicitSearch ==
    [][/\ (Typing /\ Cur.kind = "top" /\ Cur.has_his /\ Key(CTRL_R(Machine)))
              => SearchedFromCtrlR
       /\ \A k \in OfferedKeys :
              (SearchPrompt /\ Cur.kind = "hid" /\ Cur.buf = <<>>
               /\ Key(KEY_CHAR(Machine, k)))
                  => HasEntry(history[Cur.ctx.matches[<<k>>] + 1])
       /\ (SearchPrompt /\ Key(CTRL_C(Machine)))
              => (pc' = "read" /\ Len(stack') = 1 /\ CurNext.buf = Parent.buf)]_vars

(***************************************************************************)
(* SpecPlain: ReadLine calls of a process whose stdin may be a file or a   *)
(* pipe and whose TERM may name a terminal that cannot edit                *)
(***************************************************************************)
LF == "\n"
CROSS_HISTORY_BUF_LEN == 4096
MaxPlainReads == 2

\* strcasecmp(a, b) == 0 for the TERM values of the processes modelled
LowerCase(t) == IF t = "DUMB" THEN "dumb" ELSE IF t = "Emacs" THEN "emacs" ELSE t

\* not_support is set by testing the tty alone
not_support_TtyOnly(e) == ~e.isatty

\* not_support (364-374); TERM "NULL" is an unset variable
not_support(e) ==
    \/ ~e.isatty
    \/ e.TERM # "NULL" /\ LowerCase(e.TERM) \in {"dumb", "cons25", "emacs"}

\* the offset of the first c in s, Len(s) if there is none
IndexOf(s, c) ==
    IF \E i \in 1..Len(s) : s[i] = c
    THEN (CHOOSE i \in 1..Len(s) : s[i] = c /\ \A j \in 1..(i - 1) : s[j] # c) - 1
    ELSE Len(s)

\* fgets(tmpBuf, sz, stdin): the bytes taken from the stream, at most sz - 1,
\* the newline included; none at the end of the stream
fgets(sz, stream) == SubSeq(stream, 1, Min(Min(IndexOf(stream, LF) + 1, Len(stream)), sz - 1))

\* buf = tmpBuf: the bytes up to the first NUL
CString(bytes) == SubSeq(bytes, 1, IndexOf(bytes, NUL))

\* Crossline::ReadLine when not_support is set (375-385)
ReadLinePlain ==
    /\ pc = "idle"
    /\ reads < MaxPlainReads
    /\ not_support(env)
    /\ reads' = reads + 1
    /\ env' = [env EXCEPT !.stdin = SubSeq(env.stdin, Len(fgets(CROSS_HISTORY_BUF_LEN, env.stdin)) + 1,
                                           Len(env.stdin))]
    /\ result' = [op |-> "ReadLine",
                  accepted |-> Len(env.stdin) > 0,
                  text |-> CString(fgets(CROSS_HISTORY_BUF_LEN, env.stdin)),
                  cause |-> "plain", num |-> 0, hist0 |-> history, cleared |-> FALSE]
    /\ UNCHANGED <<history, history_noSearchRepeats, history_search_no, dumpRes,
                   items, common, start, end, pc, stack, clip_buf, termBuf, errno,
                   allowEscCombo, term, keyRes, drawRes, word_delimiter, loop, screen, files>>

\* Crossline::ReadLine when not_support stays 0
ReadLineOnTerminal == ~not_support(env) /\ ReadLineUpTo(MaxPlainReads)

MaxStdin == 3
StdinBytes == {"a", LF, NUL}
TermNames == {"NULL", "xterm", "dumb", "DUMB", "cons25", "Emacs"}
Processes ==
    {[isatty |-> TRUE, TERM |-> t, stdin |-> <<>>] : t \in TermNames}
    \cup {[isatty |-> FALSE, TERM |-> "xterm", stdin |-> s] :
             s \in UNION {[1..n -> StdinBytes] : n \in 0..MaxStdin}}

InitPlain ==
    /\ \E s \in Sessions : history = s.store /\ files = s.files
    /\ env \in Processes
    /\ history_noSearchRepeats = FALSE
    /\ history_search_no = 20
    /\ dumpRes = NoCall
    /\ items = <<>>
    /\ common = NoCall
    /\ start = 0
    /\ end = 0
    /\ pc = "idle"
    /\ stack = <<>>
    /\ clip_buf = <<>>
    /\ termBuf = <<>>
    /\ errno = "0"
    /\ allowEscCombo = FALSE
    /\ result = NoCall
    /\ reads = 0
    /\ screen = NoCall
    /\ loop = NoCall
    /\ word_delimiter = CROSS_DFT_DELIMITER
    /\ drawRes = NoCall
    /\ keyRes = NoCall
    /\ term = NewTerminal

NextPlain ==
    \/ ReadLinePlain
    \/ ReadLineOnTerminal
    \/ KeyChar
    \/ KeyEnter
    \/ KeyCtrlC

SpecPlain == InitPlain /\ [][NextPlain]_vars

\* the input cannot be edited, as the claim has it
NotCapable == ~env.isatty \/ LowerCase(env.TERM) \in {"dumb", "cons25", "emacs"}

\* a ReadLine call is made
CallsReadLine == pc = "idle" /\ reads' = reads + 1

\* the first line of stdin, its newline included
FirstLine == SubSeq(env.stdin, 1, Min(IndexOf(env.stdin, LF) + 1, Len(env.stdin)))

\* the call returns at once, with no read started and the history as it was
NoEditing == pc' = "idle" /\ stack' = <<>> /\ history' = history /\ result'.op = "ReadLine"

MaxResizes == 2
MaxLoopReads == 2
Widths == {4, 6}              \* ws_col of the window
ResizePrompt == 2             \* prompt.length() of "> "

\* CrosslinePrivate::ScreenGet (700-708), its pCols for ws_col
ScreenGet(ws_col) == IF ws_col > 1 THEN ws_col ELSE 160

\* a width in use: the columns, the stamp of the query that returned them,
\* and the notification the read had noticed before it used them
WidthUse(cols, stamp, need) == [cols |-> cols, stamp |-> stamp, need |-> need]

\* ReadlineEdit up to crossline_winchg_reg (1647-1680) for an empty buf: cols
\* is its local from ScreenGet; noticed is the last notification its loop saw
LoopFrame(l) ==
    [buf |-> <<>>, pos |-> 0, num |-> 0, thrown |-> FALSE,
     cols |-> ScreenGet(l.winCols), stamp |-> l.epoch, noticed |-> 0, new_pos |-> 0]

TopFrame(l) == l.frames[Len(l.frames)]
WithTop(l, f) == [l EXCEPT !.frames[Len(l.frames)] = f]

\* Refresh reads privData->term.screenCols (1280-1281), which only the
\* constructor has set (2309)
RefreshUse(l, f) == WidthUse(l.screenCols, 0, f.noticed)

LoopStep(l) ==
    /\ loop' = l
    /\ UNCHANGED <<history, history_noSearchRepeats, history_search_no, dumpRes,
                   items, common, start, end, pc, stack, clip_buf, termBuf, errno,
                   allowEscCombo, result, reads, term, keyRes, drawRes, word_delimiter,
                   env, screen, files>>

\* ReadLine: ReadlineEdit to its RefreshFull (1647-1679)
LoopReadLine ==
    /\ loop.at = "idle"
    /\ loop.calls < MaxLoopReads
    /\ LoopStep([loop EXCEPT !.at = "reg", !.calls = @ + 1,
                             !.frames = <<LoopFrame(loop)>>,
                             !.used = RefreshUse(loop, LoopFrame(loop))])

\* crossline_winchg_reg (1626-1635)
LoopReg ==
    /\ loop.at = "reg"
    /\ LoopStep([loop EXCEPT !.at = "getkey", !.registered = TRUE, !.got_resize = FALSE])

\* crossline_winchg_event (1621-1624) when the user resizes the window.  A
\* read() that is blocked returns -1 and leaves ch 0 (685), or the signal came
\* before read() was entered and the read goes on.
LoopSigwinch ==
    /\ loop.registered
    /\ loop.at # "idle"
    /\ loop.epoch < MaxResizes
    /\ \E w \in Widths \ {loop.winCols}, interrupts \in BOOLEAN :
           /\ interrupts => loop.at = "getkey"
           /\ LoopStep([loop EXCEPT
                  !.winCols = w, !.epoch = @ + 1, !.got_resize = TRUE,
                  !.redrawn = FALSE,
                  !.age = IF interrupts THEN "due" ELSE "new",
                  !.at = IF interrupts THEN "test" ELSE @,
                  !.ch = IF interrupts THEN "0" ELSE @])

\* crossline_getkey and crossline_key_mapping return a key (1685-1686): a
\* character, a key that starts a sub-read, or Enter
LoopGetKey ==
    /\ loop.at = "getkey"
    /\ \E ch \in {"char", "sub", "enter"} :
           /\ ch = "char" => TopFrame(loop).num < MaxLen
           /\ ch = "sub" => Len(loop.frames) = 1
           /\ LoopStep([loop EXCEPT !.at = "test", !.ch = ch,
                                    !.age = IF @ = "new" THEN "due" ELSE @])

\* if (privData->got_resize) and new_pos = pos (1688-1689)
LoopTest ==
    /\ loop.at = "test"
    /\ IF loop.got_resize
       THEN LoopStep([WithTop(loop, [TopFrame(loop) EXCEPT !.new_pos = TopFrame(loop).pos,
                                                           !.noticed = loop.epoch])
                      EXCEPT !.at = "redraw",
                             !.saved = [buf |-> TopFrame(loop).buf, pos |-> TopFrame(loop).pos,
                                        num |-> TopFrame(loop).num]])
       ELSE LoopStep([loop EXCEPT !.at = "dispatch"])

\* Refresh(..., 0, num, MOVE_CURSOR, 0) (1690)
LoopToLineStart ==
    /\ loop.at = "redraw"
    /\ LoopStep([WithTop(loop, Refresh(TopFrame(loop), 0, TopFrame(loop).num,
                                       "MOVE_CURSOR", 0))
                 EXCEPT !.at = "print", !.used = RefreshUse(loop, TopFrame(loop))])

\* PrintStr("\x1b[J") and Refresh(..., new_pos, num, DRAW_ALL, 0) (1691-1692)
LoopRedrawAll ==
    /\ loop.at = "print"
    /\ LoopStep([WithTop(loop, Refresh(TopFrame(loop), TopFrame(loop).new_pos,
                                       TopFrame(loop).num, "DRAW_ALL", 0))
                 EXCEPT !.at = "clear", !.used = RefreshUse(loop, TopFrame(loop)),
                        !.redrawn = TRUE, !.age = "none"])

\* privData->got_resize = false (1693)
LoopClear ==
    /\ loop.at = "clear"
    /\ LoopStep([loop EXCEPT !.at = "dispatch", !.got_resize = FALSE])

\* default: a printable character (2180-2191); the wrap test uses the local
\* cols
LoopInsert(l) ==
    LET f == TopFrame(l)
    IN [WithTop(l, Refresh([f EXCEPT !.buf = Insert(f.buf, f.pos, <<"a">>)],
                           f.pos + 1, f.num + 1,
                           IF ResizePrompt + f.pos + 1 > f.cols
                           THEN "DRAW_ALL" ELSE "DRAW_FROM_POS", f.pos))
        EXCEPT !.at = "getkey", !.used = RefreshUse(l, f),
               !.wrapped = WidthUse(f.cols, f.stamp, f.noticed)]

\* a handler calls ReadlineEdit for a sub-read, up to its RefreshFull
LoopSubRead(l) ==
    [l EXCEPT !.at = "reg", !.frames = Append(@, LoopFrame(l)),
              !.used = RefreshUse(l, LoopFrame(l))]

\* Enter moves the cursor to the end of the line and ends the read; the
\* handler that started a sub-read goes on with its RefreshFull
LoopEnter(l) ==
    IF Len(l.frames) = 1
    THEN [l EXCEPT !.at = "idle", !.frames = <<>>, !.used = RefreshUse(l, TopFrame(l))]
    ELSE [l EXCEPT !.at = "getkey", !.frames = SubSeq(@, 1, Len(@) - 1),
                   !.used = RefreshUse(l, l.frames[Len(l.frames) - 1])]

\* switch (ch) and the end of the loop body; ch 0 has no handler
LoopDispatch ==
    /\ loop.at = "dispatch"
    /\ LoopStep(IF loop.ch = "char" THEN LoopInsert(loop)
                ELSE IF loop.ch = "sub" THEN LoopSubRead(loop)
                ELSE IF loop.ch = "enter" THEN LoopEnter(loop)
                ELSE [loop EXCEPT !.at = "getkey"])

\* after the constructor (2297-2319) in a window w columns wide
NewLoop(w) ==
    [at |-> "idle", calls |-> 0, frames |-> <<>>, got_resize |-> FALSE,
     registered |-> FALSE, winCols |-> w, epoch |-> 0, screenCols |-> ScreenGet(w),
     ch |-> "none", used |-> WidthUse(ScreenGet(w), 0, 0),
     wrapped |-> WidthUse(ScreenGet(w), 0, 0), redrawn |-> TRUE, age |-> "none",
     saved |-> [buf |-> <<>>, pos |-> 0, num |-> 0]]

InitResize ==
    /\ \E s \in Sessions : history = s.store /\ files = s.files
    /\ \E w \in Widths : loop = NewLoop(w)
    /\ env = OnTerminal
    /\ history_noSearchRepeats = FALSE
    /\ history_search_no = 20
    /\ dumpRes = NoCall
    /\ items = <<>>
    /\ common = NoCall
    /\ start = 0
    /\ end = 0
    /\ pc = "idle"
    /\ stack = <<>>
    /\ clip_buf = <<>>
    /\ termBuf = <<>>
    /\ errno = "0"
    /\ allowEscCombo = FALSE
    /\ result = NoCall
    /\ reads = 0
    /\ screen = NoCall
    /\ word_delimiter = CROSS_DFT_DELIMITER
    /\ drawRes = NoCall
    /\ keyRes = NoCall
    /\ term = NewTerminal

NextResize ==
    \/ LoopReadLine
    \/ LoopReg
    \/ LoopSigwinch
    \/ LoopGetKey
    \/ LoopTest
    \/ LoopToLineStart
    \/ LoopRedrawAll
    \/ LoopClear
    \/ LoopDispatch

SpecResize == InitResize /\ [][NextResize]_vars

\* C23: once a read has noticed a resize notification, the forced redraw and
\* every later Refresh and wrap test of that read use a width that a size
\* query made after the notification returned; the forced redraw leaves the
\* buffer, the cursor and the length as they were.
C23_FreshWidth ==
    /\ loop.used.stamp >= loop.used.need
    /\ loop.wrapped.stamp >= loop.wrapped.need
    /\ loop.at = "clear" =>
           /\ TopFrame(loop).buf = loop.saved.buf
           /\ TopFrame(loop).pos = loop.saved.pos
           /\ TopFrame(loop).num = loop.saved.num

\* C24: the flag is cleared only after a forced redraw made since the last
\* notification, and no key is dispatched while a notification raised before
\* that key was read still waits for its redraw.
C24_NoLostResize ==
    [][/\ (loop.got_resize /\ ~loop'.got_resize) => loop.redrawn
       /\ loop'.at = "dispatch" => loop'.age # "due"]_vars

(***************************************************************************)
(* The terminal: a display cols wide that wraps a line at its last column  *)
(* (the wrap waits for the next character), with rows enough above and     *)
(* below the prompt that no move is cut short and nothing scrolls.  Rows   *)
(* and columns count from the first cell of the prompt.                    *)
(***************************************************************************)
MaxScreenRows == 6
Blank == " "
PromptChar == ">"

NewDisplay(cols) ==
    [cols |-> cols, row |-> 0, col |-> 0, pending |-> FALSE, shown |-> TRUE,
     cells |-> [i \in 1..(MaxScreenRows * cols) |-> Blank], stray |-> FALSE,
     exposed |-> FALSE]

\* the line feed of PrintStr, which the tty sends as CR LF
DisplayNewline(t) == [t EXCEPT !.row = @ + 1, !.col = 0, !.pending = FALSE]

\* a character printed by TerminalClass::Print (688-691)
DisplayChar(t, c) ==
    LET t1 == IF t.pending THEN DisplayNewline(t) ELSE t
        t2 == IF t1.row \in 0..(MaxScreenRows - 1)
              THEN [t1 EXCEPT !.cells[t1.row * t.cols + t1.col + 1] = c]
              ELSE [t1 EXCEPT !.stray = TRUE]
    IN IF t1.col = t.cols - 1 THEN [t2 EXCEPT !.pending = TRUE]
       ELSE [t2 EXCEPT !.col = @ + 1]

RECURSIVE DisplayText(_, _)
DisplayText(t, text) ==
    IF Len(text) = 0 THEN t
    ELSE DisplayText(IF text[1] = LF THEN DisplayNewline(t) ELSE DisplayChar(t, text[1]),
                     SubSeq(text, 2, Len(text)))

\* Crossline::PrintStr; a text printed while the cursor shows is exposed
DisplayPrint(t, text) ==
    DisplayText([t EXCEPT !.exposed = @ \/ (t.shown /\ Len(text) > 0)], text)

\* Crossline::CursorMove (849-855): ESC [ n C, D, B, A; a move stops at the
\* first and the last column
DisplayMove(t, row_off, col_off) ==
    IF row_off = 0 /\ col_off = 0 THEN t
    ELSE [t EXCEPT !.col = Max(0, Min(t.cols - 1, @ + col_off)),
                   !.row = @ + row_off,
                   !.pending = IF col_off = 0 THEN @ ELSE FALSE]

\* one call of the terminal; the prompt of prLen characters is printed for
\* the text "prompt"
DisplayCall(t, call, prLen) ==
    IF call.op = "CursorMove" THEN DisplayMove(t, call.row, call.col)
    ELSE IF call.op = "ShowCursor" THEN [t EXCEPT !.shown = call.show]
    ELSE IF call.op = "PrintStr"
    THEN DisplayPrint(t, IF call.text = "prompt" THEN [i \in 1..prLen |-> PromptChar]
                         ELSE call.text)
    ELSE t

RECURSIVE DisplayCalls(_, _, _)
DisplayCalls(t, calls, prLen) ==
    IF Len(calls) = 0 THEN t
    ELSE DisplayCalls(DisplayCall(t, calls[1], prLen), SubSeq(calls, 2, Len(calls)), prLen)

(***************************************************************************)
(* SpecScreen: a ReadLine call on a narrow terminal; every key's handler   *)
(* changes the line and sends its calls to the terminal                    *)
(***************************************************************************)
MaxScreenText == 4
MaxScreenKeys == 6
ScreenChars == {"a", "b"}
NarrowWidths == {3, 4}
ShortPrompts == {0, 2}
ScreenStore == <<<<"b">>, <<"a", "b", "a", "b">>>>
ScreenHistory == Range(ScreenStore)

\* Refresh: the line it leaves and the calls it sends
Drawn(s, f, new_pos, new_num, updateType, drawPos) ==
    [f |-> Refresh(f, new_pos, new_num, updateType, drawPos),
     out |-> RefreshOut(s.prLen, s.cols, f, Refresh(f, new_pos, new_num, updateType, drawPos),
                        new_pos, new_num, updateType, drawPos)]

\* UpdownMove (1233-1262) with bForce: the line it leaves and its CursorMove
RowMoved(s, off) ==
    LET r == UpdownMoveAt(s.line, s.prLen, s.cols, off, TRUE)
    IN [f |-> r.f,
        out |-> IF r.moved
                THEN <<CursorMove(off, CMod(r.f.pos + s.prLen, s.cols)
                                       - CMod(s.line.pos + s.prLen, s.cols))>>
                ELSE <<>>]

\* the handler left line d.f and sent the calls d.out; keys counts the steps
\* of the call
ScreenStep(s, d) ==
    /\ s.keys < MaxScreenKeys
    /\ screen' = [s EXCEPT !.at = "read", !.line = d.f, !.calls = d.out,
                           !.keys = @ + 1,
                           !.display = DisplayCalls(s.display, d.out, s.prLen)]
    /\ UNCHANGED <<history, history_noSearchRepeats, history_search_no, dumpRes,
                   items, common, start, end, pc, stack, clip_buf, termBuf, errno,
                   allowEscCombo, result, reads, term, keyRes, drawRes, word_delimiter,
                   env, loop, files>>

ScreenWaits == screen.at = "read"

\* ReadlineEdit to its first wait for a key, on an empty buf (1647-1681)
ScreenReadLine ==
    /\ screen.at = "idle"
    /\ ScreenStep(screen, Drawn(screen, screen.line, 0, 0, "DRAW_ALL", 0))

\* default: a printable character (2180-2191)
ScreenChar ==
    /\ ScreenWaits
    /\ screen.line.num < MaxScreenText
    /\ \E c \in ScreenChars :
        LET f == screen.line
        IN ScreenStep(screen,
               Drawn(screen, [f EXCEPT !.buf = Insert(f.buf, f.pos, <<c>>)],
                     f.pos + 1, f.num + 1,
                     IF screen.prLen + f.pos + 1 > screen.cols
                     THEN "DRAW_ALL" ELSE "DRAW_FROM_POS", f.pos))

\* KEY_BACKSPACE (1771-1776)
ScreenBackspace ==
    /\ ScreenWaits
    /\ screen.line.pos > 0
    /\ LET f == screen.line
       IN ScreenStep(screen, Drawn(screen, [f EXCEPT !.buf = Erase(f.buf, f.pos - 1, 1)],
                                   f.pos - 1, f.num - 1, "DRAW_ALL", 0))

\* KEY_DEL (1778-1783)
ScreenDel ==
    /\ ScreenWaits
    /\ screen.line.pos < screen.line.num
    /\ LET f == screen.line
       IN ScreenStep(screen, Drawn(screen, [f EXCEPT !.buf = Erase(f.buf, f.pos, 1)],
                                   f.pos, f.num - 1, "DRAW_ALL", 0))

\* KEY_LEFT, KEY_RIGHT, KEY_HOME, KEY_END (1715-1753)
ScreenLeft ==
    /\ ScreenWaits
    /\ screen.line.pos > 0
    /\ ScreenStep(screen, Drawn(screen, screen.line, screen.line.pos - 1, screen.line.num,
                                "MOVE_CURSOR", 0))
ScreenRight ==
    /\ ScreenWaits
    /\ screen.line.pos < screen.line.num
    /\ ScreenStep(screen, Drawn(screen, screen.line, screen.line.pos + 1, screen.line.num,
                                "MOVE_CURSOR", 0))
ScreenHome ==
    /\ ScreenWaits
    /\ ScreenStep(screen, Drawn(screen, screen.line, 0, screen.line.num, "MOVE_CURSOR", 0))
ScreenEnd ==
    /\ ScreenWaits
    /\ ScreenStep(screen, Drawn(screen, screen.line, screen.line.num, screen.line.num,
                                "MOVE_CURSOR", 0))

\* Ctrl-K (1837-1842)
ScreenCtrlK ==
    /\ ScreenWaits
    /\ ScreenStep([screen EXCEPT !.clip = TextCopy(screen.line.buf, screen.line.pos,
                                                   screen.line.num).dest],
                  Drawn(screen, screen.line, screen.line.pos, screen.line.pos, "DRAW_ALL", 0))

\* Ctrl-Y (1893-1903)
ScreenCtrlY ==
    /\ ScreenWaits
    /\ screen.line.num + Len(screen.clip) <= MaxScreenText
    /\ LET f == screen.line
       IN ScreenStep(screen,
              Drawn(screen, [f EXCEPT !.buf = Insert(f.buf, f.pos, screen.clip)],
                    f.pos + Len(screen.clip), f.num + Len(screen.clip), "DRAW_ALL", 0))

\* KEY_CTRL_UP, KEY_ALT_UP and KEY_ALT_DOWN, KEY_CTRL_DOWN (1760-1768)
ScreenRowUp == ScreenWaits /\ ScreenStep(screen, RowMoved(screen, -1))
ScreenRowDown == ScreenWaits /\ ScreenStep(screen, RowMoved(screen, 1))

\* CopyFromHistory (1503-1508) with the text of an entry
ScreenCopyFromHistory ==
    /\ ScreenWaits
    /\ \E h \in ScreenHistory :
           ScreenStep(screen, Drawn(screen, [screen.line EXCEPT !.buf = h],
                                    Len(h), Len(h), "DRAW_ALL", 0))

\* KEY_DOWN, Ctrl-N (2056-2081): the row move sends its CursorMove, the
\* history fetch the calls of its Refresh
ScreenKeyDown == KEY_DOWN_At([Machine EXCEPT !.stack = <<screen.line>>, !.history = ScreenStore],
                             screen.prLen, screen.cols)

ScreenDown ==
    /\ ScreenWaits
    /\ LET f == screen.line
           g == Top(ScreenKeyDown)
       IN ScreenStep(screen,
              [f |-> g,
               out |-> IF UpdownMoveAt(f, screen.prLen, screen.cols, -1, FALSE).moved
                       THEN <<CursorMove(-1, CMod(g.pos + screen.prLen, screen.cols)
                                             - CMod(f.pos + screen.prLen, screen.cols))>>
                       ELSE IF ~f.edit_only /\ f.has_his
                       THEN RefreshOut(screen.prLen, screen.cols, f, g, g.pos, g.num,
                                       "DRAW_ALL", 0)
                       ELSE <<>>])

NewScreen(cols, prLen) ==
    [at |-> "idle", cols |-> cols, prLen |-> prLen,
     line |-> NewFrame("top", <<>>, FALSE, FALSE, <<>>, ScreenStore, NoCtx),
     clip |-> <<>>, calls |-> <<>>, keys |-> 0, display |-> NewDisplay(cols)]

InitScreen ==
    /\ \E s \in Sessions : history = s.store /\ files = s.files
    /\ \E cols \in NarrowWidths, prLen \in ShortPrompts : screen = NewScreen(cols, prLen)
    /\ loop = NoCall
    /\ env = OnTerminal
    /\ history_noSearchRepeats = FALSE
    /\ history_search_no = 20
    /\ dumpRes = NoCall
    /\ items = <<>>
    /\ common = NoCall
    /\ start = 0
    /\ end = 0
    /\ pc = "idle"
    /\ stack = <<>>
    /\ clip_buf = <<>>
    /\ termBuf = <<>>
    /\ errno = "0"
    /\ allowEscCombo = FALSE
    /\ result = NoCall
    /\ reads = 0
    /\ word_delimiter = CROSS_DFT_DELIMITER
    /\ drawRes = NoCall
    /\ keyRes = NoCall
    /\ term = NewTerminal

NextScreen ==
    \/ ScreenReadLine
    \/ ScreenChar
    \/ ScreenBackspace
    \/ ScreenDel
    \/ ScreenLeft
    \/ ScreenRight
    \/ ScreenHome
    \/ ScreenEnd
    \/ ScreenCtrlK
    \/ ScreenCtrlY
    \/ ScreenRowUp
    \/ ScreenRowDown
    \/ ScreenDown
    \/ ScreenCopyFromHistory

SpecScreen == InitScreen /\ [][NextScreen]_vars

\* the cells a line should fill: the prompt, the text, then blanks
ExpectedCells ==
    [i \in 1..(MaxScreenRows * screen.cols) |->
        IF i <= screen.prLen THEN PromptChar
        ELSE IF i <= screen.prLen + Len(screen.line.buf) THEN screen.line.buf[i - screen.prLen]
        ELSE Blank]

\* C21: whenever the read waits for a key, the terminal's cursor is at row
\* (L + pos) / cols and column (L + pos) % cols from the first cell of the
\* prompt, and the cells show the prompt, the buffer text and then blanks.
C21_DisplayMatchesBuffer ==
    ScreenWaits =>
        /\ screen.display.row = (screen.prLen + screen.line.pos) \div screen.cols
        /\ screen.display.col = (screen.prLen + screen.line.pos) % screen.cols
        /\ screen.display.cells = ExpectedCells
        /\ ~screen.display.stray

\* the calls of the last handler that print
Printing == {i \in 1..Len(screen.calls) : screen.calls[i].op = "PrintStr"}

\* C22: a refresh that writes text hides the cursor before its first write
\* and shows it again as its last call, so that whenever the read waits for
\* a key the cursor shows and no text was ever written while it showed.
C22_CursorProtocol ==
    ScreenWaits =>
        /\ screen.display.shown
        /\ ~screen.display.exposed
        /\ Printing # {} =>
              /\ screen.calls[1] = [op |-> "ShowCursor", show |-> FALSE]
              /\ screen.calls[Len(screen.calls)] = [op |-> "ShowCursor", show |-> TRUE]

\* the read waits after a redraw of a text that fills more than a row
C22_Witness ==
    /\ ScreenWaits
    /\ Printing # {}
    /\ screen.prLen + screen.line.num > screen.cols
    /\ screen.display.shown

\* the innermost read holds a line whose length is the length of its text
\* and whose cursor is inside it
OnValidLine == Editing /\ Cur.num = Len(Cur.buf) /\ Cur.pos \in 0..Cur.num

\* C31: for every buffer t and cursor p, Ctrl-U (Ctrl-Home, Alt-Home) leaves
\* t[0,p) in the clip register, t[p..] as the buffer, len(t) - p as the
\* length and 0 as the cursor.
C31_CtrlUCutsToCursor ==
    OnValidLine =>
        /\ ~Top(CTRL_U(Machine)).thrown
        /\ CTRL_U(Machine).clip_buf = SubSeq(Cur.buf, 1, Cur.pos)
        /\ Top(CTRL_U(Machine)).buf = SubSeq(Cur.buf, Cur.pos + 1, Len(Cur.buf))
        /\ Top(CTRL_U(Machine)).num = Len(Cur.buf) - Cur.pos
        /\ Top(CTRL_U(Machine)).pos = 0

\* what the bytes past the terminator of a line of SpecWords may hold
WordMem == [1..MaxWordText -> MemBytes]

\* the offset at which the spaces that end just before offset p begin
SpaceRunStart(t, p) ==
    CHOOSE i \in 0..p :
        /\ \A j \in (i + 1)..p : t[j] = Space
        /\ i > 0 => t[i] # Space

\* the offset at which the spaces that begin at offset p end
SpaceRunEnd(t, p) ==
    CHOOSE i \in p..Len(t) :
        /\ \A j \in (p + 1)..i : t[j] = Space
        /\ i < Len(t) => t[i + 1] # Space

\* text t without the spaces next to offset p
WithoutSpacesAt(t, p) ==
    SubSeq(t, 1, SpaceRunStart(t, p)) \o SubSeq(t, SpaceRunEnd(t, p) + 1, Len(t))

\* C32: for every buffer and cursor, Alt-\ leaves the text without the
\* longest run of spaces next to the cursor, every other character kept in
\* its place, and a length that is the length of the text left.
C32_AltBackslashTrims ==
    OnValidLine =>
        \A mem \in WordMem :
            /\ ~Top(ALT_BACKSLASH(Machine, mem)).thrown
            /\ Top(ALT_BACKSLASH(Machine, mem)).buf = WithoutSpacesAt(Cur.buf, Cur.pos)
            /\ Top(ALT_BACKSLASH(Machine, mem)).num
                   = Len(Top(ALT_BACKSLASH(Machine, mem)).buf)

\* the row of offset p of the line on the screen
ScreenRow(p) == CDiv(screen.prLen + p, screen.cols)

\* the cursor is on a row above the last row of a wrapped line
AboveLastRow == ScreenWaits /\ ScreenRow(screen.line.pos) < ScreenRow(screen.line.num)

\* C33: in a wrapped line, Down (Ctrl-N) with the cursor on a row above the
\* last row moves the cursor down one row, its offset increasing, and fetches
\* no history: the text and the browse index stay.
C33_DownMovesDown ==
    AboveLastRow =>
        /\ Top(ScreenKeyDown).pos > screen.line.pos
        /\ ScreenRow(Top(ScreenKeyDown).pos) = ScreenRow(screen.line.pos) + 1
        /\ Top(ScreenKeyDown).buf = screen.line.buf
        /\ Top(ScreenKeyDown).num = screen.line.num
        /\ Top(ScreenKeyDown).history_id = screen.line.history_id

(***************************************************************************)
(* SpecReplay: a ReadLine call in which the user types two letters, cuts   *)
(* the line and pastes it into the prompt of a completion pick             *)
(***************************************************************************)
Letters == {"a", "b"}

KeyLetter == KeyCharOf(Letters)

NextReplay ==
    \/ ReadLine
    \/ KeyLetter \/ KeyCtrlX \/ KeyCtrlY \/ KeyLeft
    \/ KeyTab
    \/ KeyEnter \/ KeyCtrlC

SpecReplay == Init /\ [][NextReplay]_vars

\* the reads of machine m until GetChar has returned every byte pushed back,
\* each one handled as the key it is
RECURSIVE Replay(_)
Replay(m) ==
    IF m.termBuf = <<>> \/ m.pc # "read" THEN m
    ELSE Replay(Settle(Len(m.stack),
                       KEY_CHAR([m EXCEPT !.termBuf = SubSeq(m.termBuf, 1, Len(m.termBuf) - 1)],
                                m.termBuf[Len(m.termBuf)])))

\* a sub-read has just pushed back the text it rejected and the read that
\* started it, which takes any text, resumes
Resuming ==
    /\ pc = "read"
    /\ termBuf # <<>>
    /\ Len(stack) = 1
    /\ Len(Cur.choices) = 0
    /\ Cur.num = Len(Cur.buf)
    /\ Cur.pos \in 0..Cur.num

\* C34: a rejected text c1 ... cn is pushed back in typing order (termBuf
\* holds the bytes put, oldest first), and the resuming read gets the bytes
\* in that order: its buffer receives c1 ... cn at the cursor.
C34_ReplayInTypingOrder ==
    Resuming =>
        /\ Replay(Machine).pc = "read"
        /\ Top(Replay(Machine)).buf = Insert(Cur.buf, Cur.pos, termBuf)

(***************************************************************************)
(* SpecSeq: the terminal sends the bytes of one key that starts with ESC   *)
(* and the ReadLine calls of the program read keys until no byte is left   *)
(***************************************************************************)
CSI == <<Byte.ESC, Byte.lbracket>>

\* the sequences of an xterm: ESC [ A..D, F, H; ESC [ 1~ .. 6~; the arrows
\* with Shift (2), Alt (3) or Ctrl (5); ESC [ 11~ (F1) and ESC [ 15~ (F5);
\* ESC O A..D and ESC O P..S; the ESC+Key form ESC ESC [ A..D
TermSeqs ==
    {CSI \o <<c>> : c \in {65, 66, 67, 68, 70, 72}}
    \cup {CSI \o <<d, Byte.tilde>> : d \in 49..54}
    \cup {CSI \o <<Byte.d1, Byte.semi, m, c>> : m \in {50, 51, 53}, c \in 65..68}
    \cup {CSI \o <<Byte.d1, d, Byte.tilde>> : d \in {49, 53}}
    \cup {<<Byte.ESC, Byte.O, c>> : c \in (65..68) \cup (80..83)}
    \cup {<<Byte.ESC>> \o CSI \o <<c>> : c \in 65..68}

\* isprint(ch) in the C locale
isprint(ch) == ch \in 32..126

\* the default branch (2180-2198) for key k of a read that holds text typed
DefaultKey(typed, k, allowEsc) ==
    IF ~k.is_esc /\ isprint(k.ch) THEN [typed |-> Append(typed, k.ch), read_end |-> 0]
    ELSE IF k.is_esc /\ ~allowEsc THEN [typed |-> typed, read_end |-> -1]
    ELSE [typed |-> typed, read_end |-> 0]

\* the cases of the switch for keys that come as escape sequences
\* (1696-2179): none of them inserts a byte
NamedKeys == {Code[n] : n \in DOMAIN Code} \ {Code.KEY_ESC}

\* the terminal sends sequence s to a program that allows escape combos or
\* does not
SendKey ==
    /\ keyRes = NoCall
    /\ \E s \in TermSeqs, allowEsc \in BOOLEAN :
           keyRes' = [op |-> "keys", bytes |-> s, check_esc |-> allowEsc, rest |-> s,
                      typed |-> <<>>, keys |-> 0, ended |-> 0]
    /\ UNCHANGED <<histVars, compVars, start, end, pc, stack, clip_buf, termBuf, errno,
                   allowEscCombo, result, reads, term, drawRes, word_delimiter, env, loop,
                   screen, files>>

\* ReadlineEdit reads a key from the bytes not yet read and dispatches it;
\* a read that ends is followed by the next ReadLine call
TakeKey ==
    /\ keyRes # NoCall
    /\ keyRes.rest # <<>>
    /\ LET k == ReadKey(keyRes.rest, keyRes.check_esc)
           d == IF k.ch \in NamedKeys THEN [typed |-> keyRes.typed, read_end |-> 0]
                ELSE DefaultKey(keyRes.typed, k, keyRes.check_esc)
       IN /\ k.used <= Len(keyRes.rest)
          /\ keyRes' = [keyRes EXCEPT
                          !.rest = SubSeq(keyRes.rest, k.used + 1, Len(keyRes.rest)),
                          !.typed = d.typed,
                          !.keys = @ + 1,
                          !.ended = IF d.read_end # 0 THEN @ + 1 ELSE @]
    /\ UNCHANGED <<histVars, compVars, start, end, pc, stack, clip_buf, termBuf, errno,
                   allowEscCombo, result, reads, term, drawRes, word_delimiter, env, loop,
                   screen, files>>

NextSeq == SendKey \/ TakeKey

SpecSeq == InitHist /\ [][NextSeq]_vars

\* C35: for every sequence that starts with ESC and either setting of escape
\* combos, the first key read takes the whole sequence and no byte of it is
\* ever inserted into a buffer, in the read that got the key or in the next.
C35_NoSequenceByteTyped ==
    keyRes # NoCall =>
        /\ keyRes.typed = <<>>
        /\ keyRes.keys >= 1 => keyRes.rest = <<>>

(***************************************************************************)
(* Nesting of read operations                                              *)
(***************************************************************************)
\* the keys that start a search, a completion pick, a history browse or a
\* history clearing, applied to the read on top
ModeKeys(m) ==
    {KEY_TAB(m, "KEY_TAB"), KEY_TAB(m, "ALT_EQ"), KEY_UP(m), KEY_DOWN(m),
     KEY_PGUP(m), KEY_PGDN(m), CTRL_R(m), KEY_F2(m), KEY_F3(m, "y"),
     KEY_F3(m, "n")}

\* a key is inert when it starts no read and leaves the text, the cursor, the
\* browse index and the history store as they were
Inert(m, m1) ==
    /\ Len(m1.stack) = Len(m.stack)
    /\ m1.history = m.history
    /\ Top(m1).buf = Top(m).buf
    /\ Top(m1).pos = Top(m).pos
    /\ Top(m1).num = Top(m).num
    /\ Top(m1).history_id = Top(m).history_id
    /\ [m1 EXCEPT !.stack = SubSeq(m.stack, 1, Len(m.stack) - 1)]
         = [m EXCEPT !.stack = SubSeq(m.stack, 1, Len(m.stack) - 1)]

SubReadIsLeaf ==
    /\ Len(stack) <= 2
    /\ Len(stack) = 2 => /\ Cur.edit_only
                         /\ Cur.kind \in {"hpat", "hid", "pick"}
                         /\ \A m1 \in ModeKeys(Machine) : Inert(Machine, m1)

ParentWaits == Len(stack) = 2 /\ Len(stack') = 2 => stack'[1] = stack[1]

\* C36: a sub-read started by a history search or a completion pick never
\* starts a search, a pick, a history browse or a history clearing of its own
\* (Tab, Up, Down, PgUp, PgDn, Ctrl-R, F2 and F3 are inert in it), so at most two
\* reads are ever active, and the parent read stays as it is until its
\* sub-read has returned.
C36_NestingIsBounded == [](SubReadIsLeaf) /\ [][ParentWaits]_vars

\* a sub-read is waiting for a key with text in its buffer and a store that
\* its parent could browse
C36_Witness ==
    /\ InSubRead /\ Editing
    /\ Cur.kind = "hpat" /\ Cur.num > 0
    /\ Len(history) > 0

(***************************************************************************)
(* The indices the browse keys fetch with                                  *)
(***************************************************************************)
\* the index Up (2044), Down (2069) and PgUp (2091) hand to CopyFromHistory
\* in the read on top, and the index HistorySearch fetches its result with
\* (1102, 1106)
UpFetches(m) ==
    LET f == Top(m)
    IN IF ~f.edit_only /\ f.has_his /\ f.history_id > 0 THEN {f.history_id - 1} ELSE {}

DownFetches(m) ==
    LET f == Top(m)
    IN IF ~f.edit_only /\ f.has_his /\ f.history_id + 1 < Len(m.history)
       THEN {f.history_id + 1} ELSE {}

PgUpFetches(m) ==
    LET f == Top(m)
    IN IF ~f.edit_only /\ f.has_his /\ Len(m.history) > 0 THEN {0} ELSE {}

SearchFetches(m) ==
    LET f == Top(m)
    IN IF f.kind = "hid" THEN {f.ctx.matches[k] : k \in DOMAIN f.ctx.matches} ELSE {}

Fetches(m) == UpFetches(m) \cup DownFetches(m) \cup PgUpFetches(m) \cup SearchFetches(m)

BrowseKeys(m) == {KEY_UP(m), KEY_DOWN(m), KEY_PGUP(m), KEY_PGDN(m)}

\* C37: throughout a read, after any sequence of Up, Down, PgUp, PgDn,
\* history searches and history clearings, every index a history entry is
\* fetched with lies in 0 .. size - 1, no browse key makes an invalid access,
\* and the browse index of every active read stays within -1 .. size.
C37_HistoryIndexSafe ==
    /\ \A i \in 1..Len(stack) : stack[i].history_id \in -1..Len(history)
    /\ Len(stack) > 0 =>
         /\ \A i \in Fetches(Machine) : 0 <= i /\ i < Len(history)
         /\ ~Cur.thrown => \A m1 \in BrowseKeys(Machine) : ~Top(m1).thrown

\* a read whose store was cleared while it browsed, and a read that took its
\* browse index from a search and can fetch the entry before it
C37_Witness ==
    /\ Editing /\ Len(stack) = 1 /\ ~Cur.thrown
    /\ Cur.has_his /\ Cur.hisSearch < 1
    /\ Cur.history_id = 1 /\ Len(history) = 2
    /\ UpFetches(Machine) = {0}

(***************************************************************************)
(* SpecAmbig: reads of a program that allows escape combos, on a terminal  *)
(* that also sends sequences the decoder has no key for                    *)
(***************************************************************************)
CTRL_KEY(key) == key - 64

\* the case labels of the switch of ReadlineEdit (1696-2179) in the Linux
\* build, by the values of lines 99-105 and 145-183
SwitchKeys ==
    {8, 9, 13, 10, 30, 31}
    \cup {CTRL_KEY(c) : c \in {65, 66, 67, 68, 69, 70, 71, 75, 76, 78, 80, 82, 83, 84,
                               85, 86, 87, 88, 89, 90}}
    \cup {ALT_KEY(c) : c \in {60, 61, 62, 63, 66, 67, 68, 70, 76, 82, 85, 92, 98, 99,
                              100, 102, 108, 114, 117, 127}}
    \cup {ESC_KEY4(d, 126) : d \in 49..54}
    \cup {ESC_KEY3(c) : c \in 65..68}
    \cup {ESC_KEY6(51, m, 126) : m \in {51, 53}}
    \cup {ESC_KEY6(49, m, c) : m \in {51, 53}, c \in {65, 66, 67, 68, 70, 72}}
    \cup {ESC_OKEY(c) : c \in 80..83}

\* the default branch that ends the read on every key that came with ESC
DefaultBranch_EndsOnEsc(m, k, allowEsc) ==
    IF ~k.is_esc /\ isprint(k.ch) THEN KEY_CHAR(m, k.ch)
    ELSE IF k.is_esc THEN KEY_ESC(m, FALSE)
    ELSE KEY_ESC(m, TRUE)

\* the default branch of the switch (2180-2199) for the key k
DefaultBranch(m, k, allowEsc) ==
    IF ~k.is_esc /\ isprint(k.ch) THEN KEY_CHAR(m, k.ch)
    ELSE IF k.is_esc THEN KEY_ESC(m, allowEsc)
    ELSE KEY_ESC(m, TRUE)

\* the keys crossline_getkey and crossline_key_mapping make, with escape
\* combos allowed, of the inputs that start with ESC and that the switch has
\* no case for: ESC a, ESC [ a, ESC [ 1 a, ESC [ 1 ; 4, ESC O a, ...
AmbigKeys ==
    {[ch |-> ReadKey(s, TRUE).ch, is_esc |-> ReadKey(s, TRUE).is_esc] :
        s \in {t \in KeySeqs : t[1] = Byte.ESC /\ ReadKey(t, TRUE).ch \notin SwitchKeys}}

InitAmbig ==
    /\ \E s \in Sessions : history = s.store /\ files = s.files
    /\ history_noSearchRepeats = FALSE
    /\ history_search_no = 20
    /\ dumpRes = NoCall
    /\ items = <<>>
    /\ common = NoCall
    /\ start = 0
    /\ end = 0
    /\ pc = "idle"
    /\ stack = <<>>
    /\ clip_buf = <<>>
    /\ termBuf = <<>>
    /\ errno = "0"
    /\ allowEscCombo = TRUE
    /\ result = NoCall
    /\ reads = 0
    /\ screen = NoCall
    /\ loop = NoCall
    /\ env = OnTerminal
    /\ word_delimiter = CROSS_DFT_DELIMITER
    /\ drawRes = NoCall
    /\ keyRes = NoCall
    /\ term = NewTerminal

\* the terminal sends a sequence the switch has no case for
KeyAmbig ==
    /\ Editing
    /\ \E k \in AmbigKeys : Key(DefaultBranch(Machine, k, allowEscCombo))

NextAmbig ==
    \/ ReadLine \/ KeyChar \/ KeyLeft \/ KeyUp \/ KeyDown \/ KeyCtrlR \/ KeyTab
    \/ KeyEnter \/ KeyAmbig

SpecAmbig == InitAmbig /\ [][NextAmbig]_vars

\* C38: with escape combos enabled, an ESC followed by bytes that the
\* decoder reads as no key of the switch gives a key that is marked as an
\* escape key, does not end the read and leaves the text, the cursor, the
\* browse index and the history as they were.
C38_AmbiguousKeyIsInert ==
    Editing /\ allowEscCombo =>
        \A k \in AmbigKeys :
            LET m1 == Settle(Len(stack), DefaultBranch(Machine, k, allowEscCombo))
            IN /\ k.is_esc
               /\ m1.pc = "read"
               /\ Top(m1).read_end = 0
               /\ ~Top(m1).thrown
               /\ Inert(Machine, m1)

\* a read that browsed to a history entry (copy_buf = 1, canHis off) and then
\* got an ambiguous key, which is the only key that turns canHis on again
\* without typing
C38_Witness ==
    /\ Editing /\ allowEscCombo
    /\ AmbigKeys # {}
    /\ Cur.kind = "top" /\ Cur.copy_buf = 1 /\ Cur.canHis
    /\ Cur.num > 0 /\ Len(history) > 0

(***************************************************************************)
(* SpecGrid: ShowCompletions prints a word list without help texts in      *)
(* columns                                                                 *)
(***************************************************************************)
MaxGridItems == 3     \* candidates of a list

GridCols == {20, 40, 80}          \* terminal widths ScreenGet reports
GridWordLens == {1, 9, 11, 71}    \* lengths of candidates

GridWord(n) == [i \in 1..n |-> "w"]

GridLists ==
    UNION {[1..n -> {GridWord(l) : l \in GridWordLens}] : n \in 1..MaxGridItems}

\* "get maximum length" (1134-1141)
RECURSIVE LongestWord(_)
LongestWord(words) ==
    IF Len(words) = 0 THEN 0
    ELSE LET rest == LongestWord(SubSeq(words, 2, Len(words)))
         IN IF Len(words[1]) > rest THEN Len(words[1]) ELSE rest

\* int word_num = std::min(cols / (word_len + 6 + extra), 3), extra = 4
WordNum(cols, word_len) == Min(cols \div (word_len + 6 + 4), 3)

\* what (i+1) % word_num can give: the remainder, and for word_num = 0,
\* where the division is undefined, a trap (SIGFPE, written -1) or any
\* remainder
Remainders(n, word_num) ==
    IF word_num = 0 THEN {-1, 0, 1} ELSE {n % word_num}

\* ShowCompletions up to its loop over the candidates (1118-1191)
GridStart ==
    /\ common = NoCall
    /\ \E cols \in GridCols, words \in GridLists :
           common' = [op |-> "ShowCompletions", cols |-> cols, words |-> words,
                      word_len |-> LongestWord(words),
                      word_num |-> WordNum(cols, LongestWord(words)),
                      i |-> 0, out |-> <<>>, fault |-> FALSE, done |-> FALSE]
    /\ UNCHANGED <<histVars, items, editVars>>

\* one pass of the loop (1193-1224): the key, the word, the padding and the
\* row break; the screen is high enough for PagingCheck never to stop it
GridItem ==
    /\ common # NoCall /\ common.op = "ShowCompletions"
    /\ ~common.fault /\ ~common.done
    /\ common.i < Len(common.words)
    /\ \E r \in Remainders(common.i + 1, common.word_num) :
           LET word == common.words[common.i + 1]
               l    == (common.word_len - Len(word)) + (IF r > 0 THEN 4 ELSE 0)
               cell == <<"k", ":", " ", " ">> \o word \o [j \in 1..l |-> " "]
                       \o (IF r = 0 THEN <<"\n">> ELSE <<>>)
           IN IF r = -1 THEN common' = [common EXCEPT !.fault = TRUE]
              ELSE common' = [common EXCEPT !.i = @ + 1, !.out = @ \o cell]
    /\ UNCHANGED <<histVars, items, editVars>>

\* if (completer->Size() % word_num) PrintStr("\n") (1227-1229)
GridEnd ==
    /\ common # NoCall /\ common.op = "ShowCompletions"
    /\ ~common.fault /\ ~common.done
    /\ common.i = Len(common.words)
    /\ \E r \in Remainders(Len(common.words), common.word_num) :
           IF r = -1 THEN common' = [common EXCEPT !.fault = TRUE]
           ELSE common' = [common EXCEPT !.done = TRUE,
                                         !.out = IF r # 0 THEN @ \o <<"\n">> ELSE @]
    /\ UNCHANGED <<histVars, items, editVars>>

NextGrid == GridStart \/ GridItem \/ GridEnd

SpecGrid == InitHist /\ [][NextGrid]_vars

\* C39: when the completion list is printed as a grid, the number of
\* columns is at least 1 for every terminal width and every longest
\* candidate, so the row break never divides by zero.
C39_GridHasColumns ==
    common # NoCall /\ common.op = "ShowCompletions" =>
        /\ common.word_num >= 1
        /\ ~common.fault

(***************************************************************************)
(* The bounds of the push-back buffer                                      *)
(***************************************************************************)
\* C40: for every number of PutChar calls, more than 32 in a row included,
\* the stack index curBuf stays within -1 .. 31, so that no byte is written
\* outside the 32 elements of buffer; a byte beyond the capacity is dropped.
C40_PushBackInBounds == term.curBuf \in -1..(BufLen - 1)

(***************************************************************************)
(* Claims about the history store and the completion common prefix         *)
(***************************************************************************)
IsDump == dumpRes.op = "HistoryDump"

\* The entries a search keeps, stated from the history alone: the texts in scan
\* order that are non-empty, contain the pattern and, with dedup, have no equal
\* text earlier in scan order.
ScanOrder(hist, forward) ==
    [i \in 1..Len(hist) |-> IF forward THEN hist[i] ELSE hist[Len(hist) + 1 - i]]

KeptPositions(hist, patterns, forward, dedup) ==
    LET sc == ScanOrder(hist, forward)
    IN {i \in 1..Len(sc) :
          /\ Len(sc[i]) > 0
          /\ Find(sc[i], patterns) # npos
          /\ dedup => \A j \in 1..(i - 1) : sc[j] # sc[i]}

Kept(hist, patterns, forward, dedup) ==
    LET sc == ScanOrder(hist, forward)
        K  == KeptPositions(hist, patterns, forward, dedup)
    IN [n \in 1..Cardinality(K) |->
          sc[CHOOSE i \in K : Cardinality({j \in K : j < i}) = n - 1]]

\* Every key of the returned map names the entry displayed beside it
IndexesMatchDisplay ==
    LET r == dumpRes.res
    IN \A i \in 1..Len(r.keys) :
          /\ <<r.keys[i]>> \in DOMAIN r.matches
          /\ r.matches[<<r.keys[i]>>] \in 0..(Len(history) - 1)
          /\ history[r.matches[<<r.keys[i]>>] + 1] = r.shown[i]

\* The first n elements of a sequence (all of it when shorter)
FirstN(sq, n) == SubSeq(sq, 1, Min(n, Len(sq)))

\* C6 (as claimed): HistoryClass::Add of a text equal to the most recently
\* appended entry leaves the store unchanged.
C6_AddSuppressesDuplicate ==
    (/\ dumpRes.op = "Add"
     /\ dumpRes.before # <<>>
     /\ dumpRes.before[Len(dumpRes.before)] = dumpRes.st)
    => history = dumpRes.before

IsAbacSearch ==
    /\ IsDump
    /\ history = <<ta, tb, ta, tc>>
    /\ history_noSearchRepeats
    /\ dumpRes.patterns = <<>>
    /\ dumpRes.maxNo \notin {1, 2}

\* C7 (as claimed): over the store a, b, a, c with an empty pattern and dedup
\* on, the search shows c, b, a newest-first and a, b, c forward.
C7_OrderAsClaimed ==
    IsAbacSearch =>
        dumpRes.res.shown = IF dumpRes.forward THEN <<ta, tb, tc>>
                            ELSE <<tc, tb, ta>>

\* C7 (amended): over the store a, b, a, c with an empty pattern and dedup on,
\* the search shows exactly three matches, c, a, b newest-first (each text at
\* its first place in scan order) and a, b, c forward; "a" is never shown twice.
C7_DedupOrder ==
    IsAbacSearch =>
        /\ dumpRes.res.noShow = 3
        /\ dumpRes.res.shown = IF dumpRes.forward THEN <<ta, tb, tc>>
                               ELSE <<tc, ta, tb>>

C7_Witness ==
    /\ IsAbacSearch
    /\ ~dumpRes.forward
    /\ dumpRes.res.shown = <<tc, ta, tb>>

SearchResultAsSpecified ==
    /\ dumpRes.res.shown =
          FirstN(Kept(history, dumpRes.patterns, dumpRes.forward,
                      history_noSearchRepeats), dumpRes.maxNo)
    /\ dumpRes.res.noShow = Len(dumpRes.res.shown)
    /\ IndexesMatchDisplay

\* C8 (as claimed): for every max_results > 0 the search returns exactly the
\* first max_results kept entries in scan order, each index naming an entry
\* with the displayed text.
C8_SearchAsClaimed ==
    (IsDump /\ dumpRes.maxNo > 0) => SearchResultAsSpecified

\* C8 (amended): for every max_results from 1 to 61 (the number of mnemonic
\* keys) the search returns exactly the first max_results kept entries in scan
\* order, each index naming an entry with the displayed text.
C8_SearchUpToKeys ==
    (IsDump /\ dumpRes.maxNo > 0 /\ dumpRes.maxNo <= maxKeys)
        => SearchResultAsSpecified

C8_Witness ==
    /\ IsDump
    /\ dumpRes.maxNo = 2
    /\ history_noSearchRepeats
    /\ dumpRes.patterns = tb
    /\ history = <<tb, tab, tb>>
    /\ dumpRes.res.shown = <<tb, tab>>

\* C9 (as claimed): every match shown gets the key at its place in the fixed
\* sequence 1..9, a..z, A..Z, all keys distinct, the key table never read at or
\* beyond its 61 elements.
C9_KeysFromTable ==
    IsDump =>
        /\ ~dumpRes.res.oob
        /\ dumpRes.res.noShow <= maxKeys
        /\ dumpRes.res.keys = SubSeq(MakeIndexKeys, 1, dumpRes.res.noShow)

\* The longest common prefix of the candidate words
LongestCommonPrefix(its) ==
    LET w1 == its[1].word
        ns == {n \in 0..Len(w1) :
                 \A i \in 1..Len(its) : IsPrefix(SubSeq(w1, 1, n), its[i].word)}
    IN SubSeq(w1, 1, CHOOSE n \in ns : \A m \in ns : m <= n)

\* C10 (as claimed): for a non-empty candidate list FindCommon is the longest
\* common prefix of the words, and the quoted word for a single candidate
\* that needs quotes.
C10_CommonIsLongestPrefix ==
    (common.op = "FindCommon" /\ items # <<>>) =>
        common.res = IF Len(items) = 1 /\ items[1].needQuotes
                     THEN <<Quote>> \o items[1].word \o <<Quote>>
                     ELSE LongestCommonPrefix(items)

=============================================================================
